---- MODULE Spec2Model ----
(***************************************************************************)
(* Tile cache and tile preloading subsystem of expo-custom-map.            *)
(*                                                                         *)
(*   TileCache             src/unnamed/part_006  (src/TileCache.ts)        *)
(*   useAdvancedTileCache  src/unnamed/part_003  (hooks)                   *)
(*   TilePreloader         src/unnamed/part_008  (src/TilePreloader.ts)    *)
(*                                                                         *)
(* JavaScript runs every handler to completion on one thread, so an action *)
(* is one synchronous run of the code between two suspension points (a     *)
(* fetch, a timer).                                                        *)
(***************************************************************************)
EXTENDS Integers, Sequences, FiniteSets, TLC

VARIABLES
    now,            \* Date.now(), in ms
    \* ---- TileCache (part_006)
    cache,          \* Map<string, CachedTile> in insertion order
    maxSizeMB,      \* TileCache.maxSizeMB
    maxAge,         \* TileCache.maxAge
    lastOp,         \* the last call made on the TileCache: its key, the payload
                    \* passed (set) or returned (get, has), the entries it removed
    \* ---- useAdvancedTileCache (part_003)
    acCache,        \* cache: Map<string, TileCacheEntry> in insertion order
    cacheSize,      \* cacheSize.current, in bytes
    activeRequests, \* activeRequests.current, each url with the priority of its call
    acConfig,       \* the hook's config: maxSize (MB), maxEntries, maxAge (ms)
    lastPass,       \* what the last cleanup pass of the interval timer found and removed
    pollers,        \* the urls a downloadTile call polls the cache for (line 148-158)
    \* ---- TilePreloader.calculateTilesToPreload (part_008)
    ctCall,         \* the arguments of the call
    ctTiles,        \* the array it returns
    ctDone,         \* whether it has returned
    \* ---- TilePreloader (part_008)
    downloadQueue,          \* Set<string>, in insertion order
    currentDownloads,       \* Set<string>
    maxConcurrentDownloads,
    downloadDelay,
    isPreloading,
    controller,             \* preloadAbortController: 0 is undefined, n the n-th created
    controllerAborted,      \* its signal.aborted
    calls,                  \* the preload calls made, in order, each with its promise
    tasks,                  \* the fetches awaited and the delays running
    \* ---- the callers of TileCache.get (part_006)
    gets,                   \* how many get calls returned a payload (hits) and null (misses)
    \* ---- TileCache in persistent mode (part_006)
    persistent,             \* TileCache.persistent
    asyncStorage,           \* the AsyncStorage module: undefined, working, or rejecting
                            \* every call
    store,                  \* the records AsyncStorage holds under the storage prefix
    loadPc,                 \* loadFromStorage: awaiting getAllKeys or multiGet, loaded,
                            \* failed, or off (never started)
    loadKeys,               \* the keys its getAllKeys answered, each with the value
                            \* multiGet reads for it
    opEnded,                \* how the last call on the cache ended: returned or threw
    callsAfterFailure,      \* the store calls issued since the load failed
    \* ---- the global TileCache of TileLayer (src/components/TileLayer.tsx)
    tlCache,                \* Map<string, {data, timestamp, accessCount}> in insertion
                            \* order, each entry with the time set stored it (inserted)
    tlOp,                   \* the last call made on it and what it did
    \* ---- the download worker of useAdvancedTileCache (part_003)
    requestQueue,           \* requestQueue.current, each request with url and priority
    worker                  \* downloadWorker.current: isRunning, where process() is,
                            \* the request it awaits, and what it last took

tcVars == <<cache, maxSizeMB, maxAge, lastOp>>
acVars == <<acCache, cacheSize, activeRequests, acConfig, lastPass, pollers>>
ctVars == <<ctCall, ctTiles, ctDone>>
tpVars == <<downloadQueue, currentDownloads, maxConcurrentDownloads, downloadDelay,
            isPreloading, controller, controllerAborted, calls, tasks>>
vars == <<now, cache, maxSizeMB, maxAge, lastOp, acCache, cacheSize, activeRequests, acConfig,
          lastPass, pollers,
          ctCall, ctTiles, ctDone, downloadQueue, currentDownloads, maxConcurrentDownloads,
          downloadDelay, isPreloading, controller, controllerAborted, calls, tasks, gets,
          persistent, asyncStorage, store, loadPc, loadKeys, opEnded, callsAfterFailure,
          tlCache, tlOp, requestQueue, worker>>

\* What the actions of one component leave alone.
psVars == <<persistent, asyncStorage, store, loadPc, loadKeys, opEnded, callsAfterFailure>>
tlVars == <<tlCache, tlOp>>
wkVars == <<requestQueue, worker>>
notTc == <<acVars, ctVars, tpVars, gets, psVars, tlVars, wkVars>>
notAc == <<tcVars, ctVars, tpVars, gets, psVars, tlVars, wkVars>>
notCt == <<now, tcVars, acVars, tpVars, gets, psVars, tlVars, wkVars>>
notNow == <<tcVars, acVars, ctVars, tpVars, gets, psVars, tlVars, wkVars>>
notTp == <<now, maxSizeMB, maxAge, lastOp, acVars, ctVars, gets, psVars, tlVars, wkVars>>
notPs == <<lastOp, acVars, ctVars, tpVars, gets, tlVars, wkVars>>

-----------------------------------------------------------------------------
(* Bounds of the model.                                                    *)

MaxTime == 2
MaxAccess == 2
MaxZoom == 3
MaxRadius == 2

\* Payload lengths in characters: well under the ceiling of a 1 MB
\* cache, between 80% and 100% of it, and over it.
PayloadLengths == {400000, 900000, 1200000}
SizesMB == {0, 1}
Ages == {0, 1}

-----------------------------------------------------------------------------
(* Helpers.                                                                *)

RECURSIVE SumSize(_)
SumSize(s) == IF s = <<>> THEN 0 ELSE Head(s).size + SumSize(Tail(s))

Range(s) == {s[i] : i \in 1..Len(s)}

IndexOfKey(s, k) ==
    IF \E i \in 1..Len(s) : s[i].key = k
    THEN CHOOSE i \in 1..Len(s) : s[i].key = k
    ELSE 0

\* Map.delete for every key of ks, the other entries keeping their order.
RemoveKeys(s, ks) == SelectSeq(s, LAMBDA e : e.key \notin ks)

\* A payload is the string the cache stores; the code reads only its length
\* and hands the string back.
Payload(n) == [tag |-> "data", length |-> n]
Null == [tag |-> "null", length |-> 0]
Payloads == {Payload(n) : n \in PayloadLengths}

-----------------------------------------------------------------------------
(* TileCache, src/unnamed/part_006.                                        *)

\* `${z}-${x}-${y}`: the key is the triple of the printed values of z, x and y
\* (a number prints as its digits, NaN as "NaN", undefined as "undefined").
getTileKey(x, y, z) == <<z, x, y>>

MaxSizeBytes(mb) == mb * 1024 * 1024

\* The sort of lines 99-101 with b.lastAccess - a.lastAccess for its comparator.
RECURSIVE InsertByLastAccess_NewestFirst(_, _)
InsertByLastAccess_NewestFirst(e, s) ==
    IF s = <<>> THEN <<e>>
    ELSE IF Head(s).lastAccess >= e.lastAccess
         THEN <<Head(s)>> \o InsertByLastAccess_NewestFirst(e, Tail(s))
         ELSE <<e>> \o s

\* Array.prototype.sort is stable: entries with equal lastAccess keep the
\* order of the Map.
RECURSIVE InsertByLastAccess(_, _)
InsertByLastAccess(e, s) ==
    IF s = <<>> THEN <<e>>
    ELSE IF Head(s).lastAccess <= e.lastAccess
         THEN <<Head(s)>> \o InsertByLastAccess(e, Tail(s))
         ELSE <<e>> \o s

RECURSIVE SortByLastAccess(_)
SortByLastAccess(s) ==
    IF s = <<>> THEN <<>>
    ELSE InsertByLastAccess(s[Len(s)], SortByLastAccess(SubSeq(s, 1, Len(s) - 1)))

\* The loop of lines 103-114: delete the next tile of sortedTiles, then stop
\* when currentSize <= maxSizeBytes * 0.8.  The result is the set of keys the
\* loop deleted.
RECURSIVE EvictLoop(_, _, _)
EvictLoop(sortedTiles, currentSize, maxSizeBytes) ==
    IF sortedTiles = <<>> THEN {}
    ELSE LET tile == Head(sortedTiles)
             left == currentSize - tile.size
         IN  IF 10 * left <= 8 * maxSizeBytes
             THEN {tile.key}
             ELSE {tile.key} \cup EvictLoop(Tail(sortedTiles), left, maxSizeBytes)

\* cleanup with the loop of lines 103-114 leaving after its first deletion.
cleanup_SingleEviction(c, t, mb, age) ==
    LET maxSizeBytes == MaxSizeBytes(mb)
        alive        == SelectSeq(c, LAMBDA e : ~(t - e.timestamp > age))
        sortedTiles  == SortByLastAccess(alive)
    IN  IF SumSize(alive) > maxSizeBytes
        THEN RemoveKeys(alive, {Head(sortedTiles).key})
        ELSE alive

\* cleanup without the loop of lines 83-90.
cleanup_NoExpirySweep(c, t, mb, age) ==
    LET maxSizeBytes == MaxSizeBytes(mb)
        currentSize  == SumSize(c)
    IN  IF currentSize > maxSizeBytes
        THEN RemoveKeys(c, EvictLoop(SortByLastAccess(c), currentSize, maxSizeBytes))
        ELSE c

\* cleanup with the loop of lines 83-90 inside the test of line 97.
cleanup_SweepWhenOver(c, t, mb, age) ==
    LET maxSizeBytes == MaxSizeBytes(mb)
        alive        == SelectSeq(c, LAMBDA e : ~(t - e.timestamp > age))
        currentSize  == SumSize(alive)
    IN  IF SumSize(c) > maxSizeBytes
        THEN IF currentSize > maxSizeBytes
             THEN RemoveKeys(alive, EvictLoop(SortByLastAccess(alive), currentSize, maxSizeBytes))
             ELSE alive
        ELSE c

cleanup(c, t, mb, age) ==
    LET maxSizeBytes == MaxSizeBytes(mb)
        alive        == SelectSeq(c, LAMBDA e : ~(t - e.timestamp > age))
        currentSize  == SumSize(alive)
    IN  IF currentSize > maxSizeBytes
        THEN RemoveKeys(alive, EvictLoop(SortByLastAccess(alive), currentSize, maxSizeBytes))
        ELSE alive

\* Map.set: an existing key keeps its place, a new key goes last.
MapSet(c, e) ==
    LET i == IndexOfKey(c, e.key)
    IN  IF i = 0 THEN Append(c, e) ELSE [c EXCEPT ![i] = e]

CachedTile(key, url, data, t) ==
    [key |-> key, url |-> url, data |-> data, size |-> data.length,
     timestamp |-> t, accessCount |-> 1, lastAccess |-> t]

\* set(tile, data) in memory-only mode.
tcSet(c, key, url, data, t, mb, age) ==
    cleanup(MapSet(c, CachedTile(key, url, data, t)), t, mb, age)

tcHas(c, key) == IndexOfKey(c, key) # 0

\* get(x, y, z): the cache after the call, and the value returned.
tcGetCache(c, key, t) ==
    LET i == IndexOfKey(c, key)
    IN  IF i = 0 THEN c
        ELSE [c EXCEPT ![i].accessCount = @ + 1, ![i].lastAccess = t]

tcGetResult(c, key) ==
    LET i == IndexOfKey(c, key)
    IN  IF i = 0 THEN Null ELSE c[i].data

\* delete(x, y, z) taking the first entry of the Map when the key is absent.
tcDelete_FirstWhenAbsent(c, key) ==
    IF IndexOfKey(c, key) # 0 THEN RemoveKeys(c, {key})
    ELSE IF c = <<>> THEN c ELSE Tail(c)

\* delete(x, y, z) in memory-only mode.
tcDelete(c, key) == RemoveKeys(c, {key})

-----------------------------------------------------------------------------
(* The TileCache as a state machine: one action per public call.           *)

Zoom == 2
Tiles == {[x |-> i, y |-> 0, z |-> Zoom] : i \in {0, 1, 2}}
KeyOf(tile) == getTileKey(ToString(tile.x), ToString(tile.y), ToString(tile.z))
UrlOf(tile) == <<"tile-", ToString(tile.z), "-", ToString(tile.x), "-", ToString(tile.y)>>

\* Whether the entry under key exists and is older than maxAge at time t.
Expired(c, key, t, age) ==
    LET i == IndexOfKey(c, key)
    IN  i # 0 /\ t - c[i].timestamp > age

NoOp == [op |-> "none", key |-> <<>>, result |-> Null, expired |-> FALSE, evicted |-> 0]

TcInit ==
    /\ cache = <<>>
    /\ maxSizeMB \in SizesMB \ {0}
    /\ maxAge \in Ages \ {0}
    /\ lastOp = NoOp

Tick ==
    /\ now < MaxTime
    /\ now' = now + 1
    /\ UNCHANGED notNow

\* Whether cleanup, run on c at time t, finds an entry older than maxAge
\* while the entries weigh no more than the ceiling.
SweepsUnderCeiling(c, t, mb, age) ==
    /\ \E i \in 1..Len(c) : t - c[i].timestamp > age
    /\ SumSize(c) <= MaxSizeBytes(mb)

\* set(tile, data); lastOp.expired records SweepsUnderCeiling of its cleanup.
Set(tile, data) ==
    /\ cache' = tcSet(cache, KeyOf(tile), UrlOf(tile), data, now, maxSizeMB, maxAge)
    /\ lastOp' = [op |-> "set", key |-> KeyOf(tile), result |-> data,
                  expired |-> SweepsUnderCeiling(
                                 MapSet(cache, CachedTile(KeyOf(tile), UrlOf(tile), data, now)),
                                 now, maxSizeMB, maxAge),
                  evicted |-> Len(MapSet(cache, CachedTile(KeyOf(tile), UrlOf(tile), data, now)))
                              - Len(cache')]
    /\ UNCHANGED <<now, maxSizeMB, maxAge, notTc>>

Get(tile) ==
    /\ \A i \in 1..Len(cache) : cache[i].accessCount < MaxAccess
    /\ cache' = tcGetCache(cache, KeyOf(tile), now)
    /\ lastOp' = [op |-> "get", key |-> KeyOf(tile),
                  result |-> tcGetResult(cache, KeyOf(tile)),
                  expired |-> Expired(cache, KeyOf(tile), now, maxAge), evicted |-> 0]
    /\ UNCHANGED <<now, maxSizeMB, maxAge, notTc>>

Has(tile) ==
    /\ lastOp' = [op |-> "has", key |-> KeyOf(tile),
                  result |-> IF tcHas(cache, KeyOf(tile)) THEN Payload(1) ELSE Null,
                  expired |-> FALSE, evicted |-> 0]
    /\ UNCHANGED <<now, cache, maxSizeMB, maxAge, notTc>>

Delete(tile) ==
    /\ cache' = tcDelete(cache, KeyOf(tile))
    /\ lastOp' = [op |-> "delete", key |-> KeyOf(tile), result |-> Null, expired |-> FALSE,
                  evicted |-> Len(cache) - Len(cache')]
    /\ UNCHANGED <<now, maxSizeMB, maxAge, notTc>>

Clear ==
    /\ cache' = <<>>
    /\ lastOp' = NoOp
    /\ UNCHANGED <<now, maxSizeMB, maxAge, notTc>>

SetMaxSize(mb) ==
    /\ maxSizeMB' = mb
    /\ cache' = cleanup(cache, now, mb, maxAge)
    /\ lastOp' = [op |-> "setMaxSize", key |-> <<>>, result |-> Null, expired |-> FALSE,
                  evicted |-> Len(cache) - Len(cache')]
    /\ UNCHANGED <<now, maxAge, notTc>>

SetMaxAge(age) ==
    /\ maxAge' = age
    /\ cache' = cleanup(cache, now, maxSizeMB, age)
    /\ lastOp' = [op |-> "setMaxAge", key |-> <<>>, result |-> Null, expired |-> FALSE,
                  evicted |-> Len(cache) - Len(cache')]
    /\ UNCHANGED <<now, maxSizeMB, notTc>>

\* No cleanup pass made.
NoPass == [ran |-> FALSE, over |-> FALSE, exact |-> FALSE, removed |-> 0]

\* The other component, idle.
AcIdle ==
    /\ acCache = <<>>
    /\ cacheSize = 0
    /\ activeRequests = {}
    /\ lastPass = NoPass
    /\ pollers = {}
    /\ acConfig = [maxSize |-> 100, maxEntries |-> 1000, maxAge |-> 30 * 60 * 1000]

\* calculateTilesToPreload, not called.
CtIdle ==
    /\ ctCall = [zoomLevels |-> <<>>, center |-> <<>>, radius |-> 0]
    /\ ctTiles = <<>>
    /\ ctDone = FALSE

\* The TilePreloader as constructed.
TpIdle ==
    /\ downloadQueue = <<>>
    /\ currentDownloads = {}
    /\ maxConcurrentDownloads = 4
    /\ downloadDelay = 50
    /\ isPreloading = FALSE
    /\ controller = 0
    /\ controllerAborted = FALSE
    /\ calls = <<>>
    /\ tasks = {}

\* No get call made yet.
GetsIdle == gets = [hits |-> 0, misses |-> 0]

\* A cache in memory-only mode (createMemoryOnlyCache): no store, no load.
PsIdle ==
    /\ persistent = FALSE
    /\ asyncStorage = "undefined"
    /\ store = <<>>
    /\ loadPc = "off"
    /\ loadKeys = <<>>
    /\ opEnded = "none"
    /\ callsAfterFailure = 0

\* The global TileCache of TileLayer, no tile stored and no call made.
NoTlOp == [op |-> "none", key |-> 0, cleaned |-> FALSE, hit |-> FALSE, age |-> 0]
TlIdle ==
    /\ tlCache = <<>>
    /\ tlOp = NoTlOp

\* The download worker as the effect of lines 202-233 creates it, and the
\* empty request queue.
NoRequest == [url |-> <<>>, priority |-> 0]
NoTake == [request |-> NoRequest, queued |-> <<>>]
WkIdle ==
    /\ requestQueue = <<>>
    /\ worker = [isRunning |-> FALSE, pc |-> "idle", request |-> NoRequest,
                 timer |-> FALSE, took |-> NoTake]

CacheInit ==
    /\ now = 0
    /\ TcInit
    /\ AcIdle
    /\ CtIdle
    /\ TpIdle
    /\ GetsIdle
    /\ PsIdle
    /\ TlIdle
    /\ WkIdle

CacheNext ==
    \/ Tick
    \/ \E tile \in Tiles, data \in Payloads : Set(tile, data)
    \/ \E tile \in Tiles : Get(tile)
    \/ \E tile \in Tiles : Has(tile)
    \/ \E tile \in Tiles : Delete(tile)
    \/ Clear
    \/ \E mb \in SizesMB : SetMaxSize(mb)
    \/ \E age \in Ages : SetMaxAge(age)

SpecCache == CacheInit /\ [][CacheNext]_vars

-----------------------------------------------------------------------------
(* Claims about the TileCache, checked under SpecCache.                    *)

\* C1: once a set call has run its eviction pass, the sizes of the entries of
\* the cache sum to at most the configured maximum size in bytes.
C1_SizeWithinCeilingAfterSet ==
    lastOp.op = "set" => SumSize(cache) <= MaxSizeBytes(maxSizeMB)

\* A set whose eviction pass removed entries and left others.
C1_Witness ==
    /\ lastOp.op = "set"
    /\ lastOp.evicted > 0
    /\ cache # <<>>

\* C2: a get of an entry older than maxAge returns absent and removes the
\* entry, so that has is false afterwards.
C2_ExpiredGetReturnsAbsent ==
    (lastOp.op = "get" /\ lastOp.expired)
        => (lastOp.result = Null /\ ~tcHas(cache, lastOp.key))

\* C3: right after set(k, v), for a payload of any size, has(k) is true.
\* Stated for the payloads that fit under the ceiling on their own (lastOp
\* holds the payload of a set in result): those are the payloads for which
\* the entry can stay without the total exceeding the ceiling.
C3_HasAfterSet ==
    (lastOp.op = "set" /\ lastOp.result.length <= MaxSizeBytes(maxSizeMB))
        => tcHas(cache, lastOp.key)

-----------------------------------------------------------------------------
(* useAdvancedTileCache, src/unnamed/part_003.                             *)

\* A url is the sequence of its characters.
Letters == {"a", "b", "c", "d", "e", "f", "g", "h", "i", "j", "k", "l", "m",
            "n", "o", "p", "q", "r", "s", "t", "u", "v", "w", "x", "y", "z",
            "A", "B", "C", "D", "E", "F", "G", "H", "I", "J", "K", "L", "M",
            "N", "O", "P", "Q", "R", "S", "T", "U", "V", "W", "X", "Y", "Z"}
Digits == {"0", "1", "2", "3", "4", "5", "6", "7", "8", "9"}

\* url.replace(/[^a-zA-Z0-9]/g, '_')
getCacheKey(url) ==
    [i \in 1..Len(url) |-> IF url[i] \in Letters \cup Digits THEN url[i] ELSE "_"]

\* data.length * 0.75; the payloads of the model have lengths that are
\* multiples of 4, for which the product is an integer.
estimateImageSize(data) == (data.length * 3) \div 4

\* scoreA - scoreB < 0 for score = accessCount * (1 / (now - timestamp)) * priority.
\* An entry stamped at t has the score Infinity; Infinity - Infinity is NaN,
\* which the sort reads as 0.  priority is held in halves (1 is 0.5, 2 is 1).
ScoreElapsed(e, t) == t - e.timestamp

ScoreLess(a, b, t) ==
    LET dtA == ScoreElapsed(a, t)
        dtB == ScoreElapsed(b, t)
    IN  IF dtA = 0 THEN FALSE
        ELSE IF dtB = 0 THEN TRUE
        ELSE a.accessCount * a.priority * dtB < b.accessCount * b.priority * dtA

RECURSIVE InsertByScore(_, _, _)
InsertByScore(e, s, t) ==
    IF s = <<>> THEN <<e>>
    ELSE IF ScoreLess(e, Head(s), t)
         THEN <<e>> \o s
         ELSE <<Head(s)>> \o InsertByScore(e, Tail(s), t)

RECURSIVE SortByScore(_, _)
SortByScore(s, t) ==
    IF s = <<>> THEN <<>>
    ELSE InsertByScore(s[Len(s)], SortByScore(SubSeq(s, 1, Len(s) - 1), t), t)

\* cleanup(): the cache and the byte counter after the pass.
acCleanup(c, sz, t, cfg) ==
    LET expired == SelectSeq(c, LAMBDA e : t - e.timestamp > cfg.maxAge)
        alive   == SelectSeq(c, LAMBDA e : ~(t - e.timestamp > cfg.maxAge))
        sz1     == sz - SumSize(expired)
    IN  IF Len(alive) > cfg.maxEntries \/ sz1 > cfg.maxSize * 1024 * 1024
        THEN LET sorted   == SortByScore(alive, t)
                 toDelete == SubSeq(sorted, 1, (Len(sorted) * 3) \div 10)
             IN  [cache |-> RemoveKeys(alive, {e.key : e \in Range(toDelete)}),
                  size  |-> sz1 - SumSize(toDelete)]
        ELSE [cache |-> alive, size |-> sz1]

\* getTile(url): the cache and the counter after the call, and the value returned.
acGetTile(c, sz, url, t, cfg) ==
    LET i == IndexOfKey(c, getCacheKey(url))
    IN  IF i = 0 THEN [cache |-> c, size |-> sz, result |-> Null]
        ELSE IF t - c[i].timestamp > cfg.maxAge
             THEN [cache |-> RemoveKeys(c, {c[i].key}), size |-> sz - c[i].size,
                   result |-> Null]
             ELSE [cache |-> [c EXCEPT ![i].accessCount = @ + 1, ![i].timestamp = t],
                   size |-> sz, result |-> c[i].data]

\* cacheTile(url, data, priority).
acCacheTile(c, sz, url, data, priority, t, cfg) ==
    LET key  == getCacheKey(url)
        size == estimateImageSize(data)
        pre  == IF Len(c) >= cfg.maxEntries \/ sz + size > cfg.maxSize * 1024 * 1024
                THEN acCleanup(c, sz, t, cfg)
                ELSE [cache |-> c, size |-> sz]
    IN  [cache |-> MapSet(pre.cache, [key |-> key, data |-> data, timestamp |-> t,
                                      accessCount |-> 1, size |-> size,
                                      priority |-> priority]),
         size  |-> pre.size + size]

-----------------------------------------------------------------------------
(* The hook as a state machine.  downloadTile is the only caller of        *)
(* cacheTile; a call is split at its fetch.                                *)

\* Two of the urls differ only in characters that getCacheKey maps to "_".
Urls == {<<"t", "/", "1">>, <<"t", ".", "1">>, <<"t", "/", "2">>}
AcPayloads == {Payload(400000), Payload(1200000)}
Priorities == {1, 2}
AcConfigs == {[maxSize |-> 1, maxEntries |-> n, maxAge |-> 1] : n \in {1, 2, 3}}

\* The downloadTile calls waiting for another call's fetch at one time.
MaxPollers == 1

\* The TileCache, idle.
TcIdle ==
    /\ cache = <<>>
    /\ maxSizeMB = 100
    /\ maxAge = 7 * 24 * 60 * 60 * 1000
    /\ lastOp = NoOp

AcInit ==
    /\ now = 0
    /\ acCache = <<>>
    /\ cacheSize = 0
    /\ activeRequests = {}
    /\ lastPass = NoPass
    /\ pollers = {}
    /\ acConfig \in AcConfigs
    /\ TcIdle
    /\ CtIdle
    /\ TpIdle
    /\ GetsIdle
    /\ PsIdle
    /\ TlIdle
    /\ WkIdle

AcTick ==
    /\ now < MaxTime
    /\ now' = now + 1
    /\ UNCHANGED notNow

\* getTile(url), called by the rendering layer.
GetTile(url) ==
    /\ \A i \in 1..Len(acCache) : acCache[i].accessCount < MaxAccess
    /\ LET r == acGetTile(acCache, cacheSize, url, now, acConfig)
       IN  /\ acCache' = r.cache
           /\ cacheSize' = r.size
    /\ lastPass' = NoPass
    /\ UNCHANGED <<now, notAc, activeRequests, acConfig, pollers>>

\* downloadTile(url, priority) up to its fetch: a hit returns the cached
\* payload, a url already in activeRequests is polled for, anything else
\* starts a fetch.
DownloadStart(url, priority) ==
    /\ \A i \in 1..Len(acCache) : acCache[i].accessCount < MaxAccess
    /\ Cardinality(pollers \cup {url}) <= MaxPollers \/ ~(\E a \in activeRequests : a.url = url)
    /\ LET r == acGetTile(acCache, cacheSize, url, now, acConfig)
       IN  /\ acCache' = r.cache
           /\ cacheSize' = r.size
           /\ activeRequests' =
                 IF r.result # Null \/ (\E a \in activeRequests : a.url = url)
                 THEN activeRequests
                 ELSE activeRequests \cup {[url |-> url, priority |-> priority]}
           /\ pollers' =
                 IF r.result = Null /\ (\E a \in activeRequests : a.url = url)
                 THEN pollers \cup {url}
                 ELSE pollers
    /\ lastPass' = NoPass
    /\ UNCHANGED <<now, notAc, acConfig>>

\* The fetch of an active request answers with a payload: cacheTile, then the
\* finally block.
DownloadOk(a, data) ==
    /\ a \in activeRequests
    /\ LET r == acCacheTile(acCache, cacheSize, a.url, data, a.priority, now, acConfig)
       IN  /\ acCache' = r.cache
           /\ cacheSize' = r.size
    /\ activeRequests' = activeRequests \ {a}
    /\ lastPass' = NoPass
    /\ UNCHANGED <<now, notAc, acConfig, pollers>>

\* The fetch fails or times out: the catch and finally blocks.
DownloadFail(a) ==
    /\ a \in activeRequests
    /\ activeRequests' = activeRequests \ {a}
    /\ lastPass' = NoPass
    /\ UNCHANGED <<now, notAc, acCache, cacheSize, acConfig, pollers>>

\* The cleanup the interval timer runs every minute.
AcCleanup ==
    /\ LET r == acCleanup(acCache, cacheSize, now, acConfig)
       IN  /\ acCache' = r.cache
           /\ cacheSize' = r.size
    /\ lastPass' =
          LET expired == SelectSeq(acCache, LAMBDA e : now - e.timestamp > acConfig.maxAge)
              alive   == SelectSeq(acCache, LAMBDA e : ~(now - e.timestamp > acConfig.maxAge))
          IN  [ran |-> TRUE,
               over |-> \/ Len(alive) > acConfig.maxEntries
                        \/ cacheSize - SumSize(expired) > acConfig.maxSize * 1024 * 1024,
               exact |-> cacheSize = SumSize(acCache),
               removed |-> Len(alive) - Len(acCache')]
    /\ UNCHANGED <<now, notAc, activeRequests, acConfig, pollers>>

ClearCache ==
    /\ acCache' = <<>>
    /\ cacheSize' = 0
    /\ lastPass' = NoPass
    /\ UNCHANGED <<now, notAc, activeRequests, acConfig, pollers>>

\* checkCache of a downloadTile call whose url was already being fetched: it
\* resolves with the tile once getTile finds it, and re-arms its 50 ms timer
\* otherwise. It looks at the cache only, never at activeRequests.
PollCache(url) ==
    /\ url \in pollers
    /\ LET r == acGetTile(acCache, cacheSize, url, now, acConfig)
       IN  /\ acCache' = r.cache
           /\ cacheSize' = r.size
           /\ pollers' = IF r.result # Null THEN pollers \ {url} ELSE pollers
    /\ lastPass' = NoPass
    /\ UNCHANGED <<now, notAc, activeRequests, acConfig>>

AcNext ==
    \/ AcTick
    \/ \E url \in Urls : GetTile(url)
    \/ \E url \in Urls, priority \in Priorities : DownloadStart(url, priority)
    \/ \E a \in activeRequests, data \in AcPayloads : DownloadOk(a, data)
    \/ \E a \in activeRequests : DownloadFail(a)
    \/ \E url \in pollers : PollCache(url)
    \/ AcCleanup
    \/ ClearCache

SpecAdv == AcInit /\ [][AcNext]_vars

-----------------------------------------------------------------------------
(* Claims about useAdvancedTileCache, checked under SpecAdv.               *)

\* C4: in every reachable state the tracked byte counter cacheSize equals the
\* sum of the size fields of the entries in the cache map.
C4_CacheSizeIsSumOfSizes ==
    cacheSize = SumSize(acCache)

-----------------------------------------------------------------------------
(* TilePreloader.calculateTilesToPreload, src/unnamed/part_008:252-274.    *)

\* `tile-${zoom}-${x}-${y}`, as the sequence of its pieces.
TileUrl(zoom, x, y) == <<"tile-", ToString(zoom), "-", ToString(x), "-", ToString(y)>>

\* The test of line 265 with <= for <.
InGrid_InclusiveEdge(x, y, zoom) == x >= 0 /\ y >= 0 /\ x <= 2 ^ zoom /\ y <= 2 ^ zoom

\* The test of line 265.
InGrid(x, y, zoom) == x >= 0 /\ y >= 0 /\ x < 2 ^ zoom /\ y < 2 ^ zoom

\* The inner loop of lines 264-269 for one x: y runs from centerTile.y - radius
\* up to centerTile.y + radius.
RECURSIVE ColumnFrom(_, _, _, _)
ColumnFrom(x, y, yMax, zoom) ==
    IF y > yMax THEN <<>>
    ELSE (IF InGrid(x, y, zoom) THEN <<TileUrl(zoom, x, y)>> ELSE <<>>)
         \o ColumnFrom(x, y + 1, yMax, zoom)

\* The outer loop of lines 263-270.
RECURSIVE SquareFrom(_, _, _, _, _)
SquareFrom(x, xMax, centerTile, radius, zoom) ==
    IF x > xMax THEN <<>>
    ELSE ColumnFrom(x, centerTile.y - radius, centerTile.y + radius, zoom)
         \o SquareFrom(x + 1, xMax, centerTile, radius, zoom)

\* calculateTilesToPreload(latitude, longitude, zoomLevels, radius).  center[i]
\* is latLonToTile(latitude, longitude, zoomLevels[i]), the centre tile at the
\* i-th zoom level.
RECURSIVE calculateTilesToPreload(_, _, _)
calculateTilesToPreload(center, zoomLevels, radius) ==
    IF zoomLevels = <<>> THEN <<>>
    ELSE SquareFrom(Head(center).x - radius, Head(center).x + radius,
                    Head(center), radius, Head(zoomLevels))
         \o calculateTilesToPreload(Tail(center), Tail(zoomLevels), radius)

\* The calls made: one zoom level, the centre tile anywhere on the grid or one
\* tile outside it (latLonToTile gives x = 2^zoom for a longitude of 180), and
\* two calls with two zoom levels.
CenterTiles(zoom) == {[x |-> x, y |-> y] : x \in (-1)..(2 ^ zoom), y \in (-1)..(2 ^ zoom)}
CtCalls ==
    UNION {{[zoomLevels |-> <<z>>, center |-> <<c>>, radius |-> r] :
               c \in CenterTiles(z), r \in (-1)..MaxRadius} : z \in 0..MaxZoom}
    \cup {[zoomLevels |-> <<1, 2>>, center |-> <<[x |-> 1, y |-> 0], [x |-> 2, y |-> 1]>>,
           radius |-> r] : r \in 0..MaxRadius}

CtInit ==
    /\ now = 0
    /\ TcIdle
    /\ AcIdle
    /\ ctCall \in CtCalls
    /\ ctTiles = <<>>
    /\ ctDone = FALSE
    /\ TpIdle
    /\ GetsIdle
    /\ PsIdle
    /\ TlIdle
    /\ WkIdle

Calculate ==
    /\ ~ctDone
    /\ ctTiles' = calculateTilesToPreload(ctCall.center, ctCall.zoomLevels, ctCall.radius)
    /\ ctDone' = TRUE
    /\ UNCHANGED <<ctCall, notCt>>

CtNext == Calculate

SpecTiles == CtInit /\ [][CtNext]_vars

\* C10: for one zoom level z, centre tile (cx, cy) and radius r, the candidates
\* are exactly the tiles (x, y) with |x-cx| <= r, |y-cy| <= r, 0 <= x <= 2^z-1
\* and 0 <= y <= 2^z-1, each once; they are (2r+1)^2 when the centre is at
\* least r tiles away from every edge of the grid.
C10_CandidatesAreTheClippedSquare ==
    (ctDone /\ Len(ctCall.zoomLevels) = 1) =>
        LET z  == ctCall.zoomLevels[1]
            cx == ctCall.center[1].x
            cy == ctCall.center[1].y
            r  == ctCall.radius
            n  == 2 ^ z
            square == {<<x, y>> \in ((cx - r)..(cx + r)) \X ((cy - r)..(cy + r)) :
                          /\ 0 <= x /\ x <= n - 1
                          /\ 0 <= y /\ y <= n - 1}
        IN  /\ Range(ctTiles) = {TileUrl(z, t[1], t[2]) : t \in square}
            /\ Len(ctTiles) = Cardinality(square)
            /\ (/\ r >= 0
                /\ cx - r >= 0 /\ cx + r <= n - 1
                /\ cy - r >= 0 /\ cy + r <= n - 1)
                   => Len(ctTiles) = (2 * r + 1) * (2 * r + 1)

\* A call of radius 2 whose square lies inside the grid: 25 candidates.
C10_Witness ==
    /\ ctDone
    /\ Len(ctCall.zoomLevels) = 1
    /\ ctCall.radius = 2
    /\ Len(ctTiles) = 25

-----------------------------------------------------------------------------
(* TilePreloader, src/unnamed/part_008.                                    *)

\* The number of preload calls made on the preloader.
MaxCalls == 2

\* A URL is the sequence of its pieces: a placeholder, a "-" and a printed
\* number are pieces of their own, so that replace and split act on pieces.
KeyTemplate == <<"tile-", "{z}", "-", "{x}", "-", "{y}">>
SlashTemplate == <<"https://tile.example/", "{z}", "/", "{x}", "/", "{y}", ".png">>
NoTemplate == <<>>
Templates == {KeyTemplate, SlashTemplate, NoTemplate}

\* String.prototype.replace with a string pattern: the first occurrence only.
ReplaceFirst(s, piece, by) ==
    IF \E i \in 1..Len(s) : s[i] = piece
    THEN LET i == CHOOSE k \in 1..Len(s) : s[k] = piece /\ \A j \in 1..(k - 1) : s[j] # piece
         IN  SubSeq(s, 1, i - 1) \o by \o SubSeq(s, i + 1, Len(s))
    ELSE s

\* buildTileUrl(template, x, y, z); the templates used have no {s}.
buildTileUrl(template, x, y, z) ==
    ReplaceFirst(ReplaceFirst(ReplaceFirst(template, "{x}", <<ToString(x)>>),
                              "{y}", <<ToString(y)>>),
                 "{z}", <<ToString(z)>>)

\* String.prototype.split('-'): the pieces between the "-", acc being the
\* piece under way.
RECURSIVE Split(_, _)
Split(s, acc) ==
    IF s = <<>> THEN <<acc>>
    ELSE IF Head(s) = "-" THEN <<acc>> \o Split(Tail(s), <<>>)
         ELSE Split(Tail(s), Append(acc, Head(s)))

\* Number(string), printed: the digits of a number, 0 for the empty string,
\* NaN for anything else.
NumberStrings == {ToString(n) : n \in 0..9}
Number(piece) ==
    IF piece = <<>> THEN "0"
    ELSE IF Len(piece) = 1 /\ piece[1] \in NumberStrings THEN piece[1]
         ELSE "NaN"

\* const [z, x, y] = tileUrl.replace('tile-', '').split('-').map(Number), each
\* printed; a missing element is undefined.
ParseTile(tileUrl) ==
    LET pieces == Split(ReplaceFirst(tileUrl, "tile-", <<>>), <<>>)
        at(i)  == IF i <= Len(pieces) THEN Number(pieces[i]) ELSE "undefined"
    IN  [z |-> at(1), x |-> at(2), y |-> at(3)]

\* The cache key that has(x, y, z) and set({x, y, z, url}) use for a URL.
KeyOfUrl(tileUrl) ==
    LET p == ParseTile(tileUrl) IN getTileKey(p.x, p.y, p.z)

\* What every fetch answers when it succeeds.
TileData == Payload(400000)

\* The preloader's fields and the cache, as one record.
State ==
    [downloadQueue |-> downloadQueue, currentDownloads |-> currentDownloads,
     maxConcurrentDownloads |-> maxConcurrentDownloads, downloadDelay |-> downloadDelay,
     isPreloading |-> isPreloading, controller |-> controller,
     controllerAborted |-> controllerAborted, calls |-> calls, tasks |-> tasks,
     cache |-> cache]

SetState(st) ==
    /\ downloadQueue' = st.downloadQueue
    /\ currentDownloads' = st.currentDownloads
    /\ maxConcurrentDownloads' = st.maxConcurrentDownloads
    /\ downloadDelay' = st.downloadDelay
    /\ isPreloading' = st.isPreloading
    /\ controller' = st.controller
    /\ controllerAborted' = st.controllerAborted
    /\ calls' = st.calls
    /\ tasks' = st.tasks
    /\ cache' = st.cache

\* signal.aborted of the signal of the sig-th controller: a controller is
\* replaced only after cancelPreloading has aborted it (lines 57-62).
SignalAborted(st, sig) == sig # 0 /\ (sig < st.controller \/ st.controllerAborted)

\* A preload call and its promise.  total, loaded, errors and progress are
\* its PreloadProgress; active counts the workers (region) or the promises
\* (center, route) not finished; sem* is the semaphore of line 147.  failed,
\* stored, aborted and canceled record what happened to the call: how many of
\* its fetches failed on their own, how many answered and went to cache.set,
\* how many were aborted, and whether cancelPreloading ran while it was
\* running.
Call(kind, area, template) ==
    [kind |-> kind, area |-> area, template |-> template, status |-> "running",
     total |-> 0, loaded |-> 0, errors |-> 0, progress |-> 0, active |-> 0,
     semCurrent |-> 0, semLimit |-> 0, semQueue |-> <<>>,
     failed |-> 0, stored |-> 0, aborted |-> 0, canceled |-> FALSE]

\* An awaited fetch (pc = "fetch") or timer (pc = "delay") of call b.
Task(b, kind, pc, url, signal) ==
    [call |-> b, kind |-> kind, pc |-> pc, url |-> url, signal |-> signal]

\* cancelPreloading() without the downloadQueue.clear() of line 232.
cancelPreloading_QueueKept(st) ==
    [st EXCEPT !.controllerAborted = IF st.controller # 0 THEN TRUE ELSE @,
               !.isPreloading = FALSE,
               !.currentDownloads = {},
               !.calls = [i \in 1..Len(st.calls) |->
                             IF st.calls[i].status = "running"
                             THEN [st.calls[i] EXCEPT !.canceled = TRUE]
                             ELSE st.calls[i]]]

\* cancelPreloading().
cancelPreloading(st) ==
    [st EXCEPT !.controllerAborted = IF st.controller # 0 THEN TRUE ELSE @,
               !.isPreloading = FALSE,
               !.downloadQueue = <<>>,
               !.currentDownloads = {},
               !.calls = [i \in 1..Len(st.calls) |->
                             IF st.calls[i].status = "running"
                             THEN [st.calls[i] EXCEPT !.canceled = TRUE]
                             ELSE st.calls[i]]]

\* Math.round((loaded / total) * 100).
ProgressPercent(loaded, total) == (200 * loaded + total) \div (2 * total)

\* A worker of batch b returns from processDownloadQueue.  When it is the last
\* one, Promise.all resolves and preloadTilesForRegion runs lines 108-115.
WorkerReturns(st, b) ==
    IF st.calls[b].active > 1
    THEN [st EXCEPT !.calls[b].active = @ - 1]
    ELSE [st EXCEPT !.calls[b].active = 0,
                    !.calls[b].status = "resolved",
                    !.calls[b].progress = ProgressPercent(st.calls[b].loaded, st.calls[b].total),
                    !.isPreloading = FALSE,
                    !.downloadQueue = <<>>,
                    !.currentDownloads = {}]

\* Lines 277-287: the first tile of the queue that is not being downloaded,
\* the tiles before it leaving the queue with it; url is <<>> when the queue
\* runs out.
RECURSIVE TakeTile(_, _)
TakeTile(queue, current) ==
    IF queue = <<>> THEN [queue |-> <<>>, url |-> <<>>]
    ELSE IF Head(queue) \in current THEN TakeTile(Tail(queue), current)
         ELSE [queue |-> Tail(queue), url |-> Head(queue)]

\* processDownloadQueue from the test of its loop up to the fetch of line 315
\* or to its return.
processDownloadQueue(st, b) ==
    IF ~st.isPreloading THEN WorkerReturns(st, b)
    ELSE LET t == TakeTile(st.downloadQueue, st.currentDownloads)
         IN  IF t.url = <<>>
             THEN WorkerReturns([st EXCEPT !.downloadQueue = t.queue], b)
             ELSE [st EXCEPT !.downloadQueue = t.queue,
                             !.currentDownloads = @ \cup {t.url},
                             !.tasks = @ \cup {Task(b, "worker", "fetch", t.url, st.controller)}]

\* The loop of lines 100-102: n calls of processDownloadQueue, one after the
\* other.
RECURSIVE SpawnWorkers(_, _, _)
SpawnWorkers(st, b, n) ==
    IF n = 0 THEN st ELSE SpawnWorkers(processDownloadQueue(st, b), b, n - 1)

\* Lines 299-308 after the timer: leave when the controller of the moment is
\* aborted, else go round the loop.
AfterDelay(st, b) ==
    IF st.controller # 0 /\ st.controllerAborted
    THEN WorkerReturns(st, b)
    ELSE processDownloadQueue(st, b)

\* downloadAndCacheTile(tileUrl) once its fetch has answered (ok), failed
\* (fail: transport error or non-2xx) or been aborted (abort), with an
\* AbortError thrown on to the caller.
downloadAndCacheTile_AbortRethrown(st, tileUrl, outcome, t) ==
    IF outcome = "ok"
    THEN [st |-> [st EXCEPT !.cache = tcSet(st.cache, KeyOfUrl(tileUrl), tileUrl, TileData,
                                            t, maxSizeMB, maxAge)],
          throws |-> FALSE]
    ELSE [st |-> st, throws |-> TRUE]

\* downloadAndCacheTile(tileUrl) once its fetch has answered (ok), failed
\* (fail: transport error or non-2xx) or been aborted (abort).
downloadAndCacheTile(st, tileUrl, outcome, t) ==
    IF outcome = "ok"
    THEN [st |-> [st EXCEPT !.cache = tcSet(st.cache, KeyOfUrl(tileUrl), tileUrl, TileData,
                                            t, maxSizeMB, maxAge)],
          throws |-> FALSE]
    ELSE IF outcome = "abort"
         THEN [st |-> st, throws |-> FALSE]
         ELSE [st |-> st, throws |-> TRUE]

\* What the network did to call b, noted on the call.
Noted(st, b, outcome) ==
    [st EXCEPT !.calls[b].failed = IF outcome = "fail" THEN @ + 1 ELSE @,
               !.calls[b].stored = IF outcome = "ok" THEN @ + 1 ELSE @,
               !.calls[b].aborted = IF outcome = "abort" THEN @ + 1 ELSE @]

\* WorkerSettles putting the tile of a failed fetch back into the queue.
WorkerSettles_Requeue(st, task, outcome, t) ==
    LET b  == task.call
        d  == downloadAndCacheTile(st, task.url, outcome, t)
        s1 == [d.st EXCEPT !.calls[b].loaded = IF d.throws THEN @ ELSE @ + 1,
                           !.calls[b].errors = IF d.throws THEN @ + 1 ELSE @,
                           !.downloadQueue = IF d.throws /\ task.url \notin Range(@)
                                             THEN Append(@, task.url) ELSE @,
                           !.currentDownloads = @ \ {task.url},
                           !.tasks = @ \ {task}]
    IN  IF s1.downloadDelay > 0
        THEN [s1 EXCEPT !.tasks = @ \cup {[task EXCEPT !.pc = "delay"]}]
        ELSE AfterDelay(s1, b)

\* Lines 289-302 of processDownloadQueue once the await of line 290 is over,
\* then the rest of the loop when there is no delay.
WorkerSettles(st, task, outcome, t) ==
    LET b  == task.call
        d  == downloadAndCacheTile(st, task.url, outcome, t)
        s1 == [d.st EXCEPT !.calls[b].loaded = IF d.throws THEN @ ELSE @ + 1,
                           !.calls[b].errors = IF d.throws THEN @ + 1 ELSE @,
                           !.currentDownloads = @ \ {task.url},
                           !.tasks = @ \ {task}]
    IN  IF s1.downloadDelay > 0
        THEN [s1 EXCEPT !.tasks = @ \cup {[task EXCEPT !.pc = "delay"]}]
        ELSE AfterDelay(s1, b)

\* One promise of the Promise.all of line 164 or 221 settles: the call rejects
\* with the first promise that rejects and resolves when all are fulfilled.
PromiseSettles(st, b, throws) ==
    LET c == st.calls[b]
    IN  [st EXCEPT !.calls[b].active = @ - 1,
                   !.calls[b].status =
                       IF c.status # "running" THEN @
                       ELSE IF throws THEN "rejected"
                       ELSE IF c.active = 1 THEN "resolved"
                       ELSE @]

\* release() with queue.pop() for the queue.shift() of line 374.
release_LastWaiter(st, b) ==
    LET c == st.calls[b]
        n == Len(c.semQueue)
    IN  IF c.semQueue = <<>>
        THEN [st EXCEPT !.calls[b].semCurrent = @ - 1]
        ELSE IF c.semCurrent - 1 < c.semLimit
             THEN [st EXCEPT !.calls[b].semQueue = SubSeq(@, 1, n - 1),
                             !.tasks = @ \cup {Task(b, "sem", "fetch", c.semQueue[n],
                                                    st.controller)}]
             ELSE [st EXCEPT !.calls[b].semCurrent = @ - 1]

\* release() of the semaphore of call b (lines 371-377): current--, then the
\* first waiter, if any, acquires (current++) and starts its fetch.
release(st, b) ==
    LET c == st.calls[b]
    IN  IF c.semQueue = <<>>
        THEN [st EXCEPT !.calls[b].semCurrent = @ - 1]
        ELSE IF c.semCurrent - 1 < c.semLimit
             THEN [st EXCEPT !.calls[b].semQueue = Tail(@),
                             !.tasks = @ \cup {Task(b, "sem", "fetch", Head(c.semQueue),
                                                    st.controller)}]
             ELSE [st EXCEPT !.calls[b].semCurrent = @ - 1,
                             !.calls[b].semQueue = Append(Tail(@), Head(@))]

\* Lines 153-159 once the await of line 155 is over.
SemSettles(st, task, outcome, t) ==
    LET d == downloadAndCacheTile([st EXCEPT !.tasks = @ \ {task}], task.url, outcome, t)
    IN  PromiseSettles(release(d.st, task.call), task.call, d.throws)

\* One promise of line 219 settles.
RouteSettles(st, task, outcome, t) ==
    LET d == downloadAndCacheTile([st EXCEPT !.tasks = @ \ {task}], task.url, outcome, t)
    IN  PromiseSettles(d.st, task.call, d.throws)

Settles(st, task, outcome, t) ==
    IF task.kind = "worker" THEN WorkerSettles(Noted(st, task.call, outcome), task, outcome, t)
    ELSE IF task.kind = "sem" THEN SemSettles(Noted(st, task.call, outcome), task, outcome, t)
    ELSE RouteSettles(Noted(st, task.call, outcome), task, outcome, t)

\* An option of TilePreloadOptions is {} when left out and {v} when given.
OptionOr(option, default) == IF option = {} THEN default ELSE CHOOSE v \in option : TRUE

Min(a, b) == IF a < b THEN a ELSE b

\* Set.add of every element of urls, in order.
RECURSIVE AddAll(_, _)
AddAll(queue, urls) ==
    IF urls = <<>> THEN queue
    ELSE AddAll(IF Head(urls) \in Range(queue) THEN queue ELSE Append(queue, Head(urls)),
                Tail(urls))

\* The zoom of every preload call, and the areas preloaded: a centre tile and
\* a radius, covering one tile and two tiles of the grid.
PreZoom == 1
Areas ==
    {[center |-> [x |-> 0, y |-> 0], radius |-> 0],
     [center |-> [x |-> 0, y |-> -1], radius |-> 1]}
RegionOptions ==
    {[delay |-> {}, maxConcurrent |-> {}],
     [delay |-> {}, maxConcurrent |-> {1}],
     [delay |-> {0}, maxConcurrent |-> {1}]}

\* preloadTilesForRegion(latitude, longitude, zoom, {radius, delay,
\* maxConcurrent}) up to its await of line 105, as the b-th call; area.center
\* is latLonToTile(latitude, longitude, zoom).
preloadTilesForRegion(st, area, options, b) ==
    LET s0 == cancelPreloading(st)
        s1 == [s0 EXCEPT !.downloadDelay = OptionOr(options.delay, st.downloadDelay),
                         !.maxConcurrentDownloads =
                             OptionOr(options.maxConcurrent, st.maxConcurrentDownloads),
                         !.isPreloading = TRUE,
                         !.controller = @ + 1,
                         !.controllerAborted = FALSE]
        tilesToPreload  == calculateTilesToPreload(<<area.center>>, <<PreZoom>>, area.radius)
        tilesToDownload == SelectSeq(tilesToPreload, LAMBDA u : ~tcHas(st.cache, KeyOfUrl(u)))
        n       == Len(tilesToDownload)
        workers == Min(s1.maxConcurrentDownloads, n)
        call    == [Call("region", area, NoTemplate) EXCEPT !.total = n]
    IN  IF n = 0
        THEN [s1 EXCEPT !.isPreloading = FALSE,
                        !.calls = Append(@, [call EXCEPT !.progress = 100,
                                                         !.status = "resolved"])]
        ELSE IF workers <= 0
             THEN \* no worker started: Promise.all([]) resolves and lines 108-115 run
                  [s1 EXCEPT !.isPreloading = FALSE,
                             !.calls = Append(@, [call EXCEPT !.status = "resolved"])]
             ELSE SpawnWorkers([s1 EXCEPT !.downloadQueue = AddAll(@, tilesToDownload),
                                          !.calls = Append(@, [call EXCEPT !.active = workers])],
                               b, workers)

\* The loops of lines 136-143 and 202-209: the URLs of the in-range tiles.
RECURSIVE UrlColumnFrom(_, _, _, _, _)
UrlColumnFrom(template, x, y, yMax, zoom) ==
    IF y > yMax THEN <<>>
    ELSE (IF InGrid(x, y, zoom) THEN <<buildTileUrl(template, x, y, zoom)>> ELSE <<>>)
         \o UrlColumnFrom(template, x, y + 1, yMax, zoom)

RECURSIVE UrlSquareFrom(_, _, _, _, _, _)
UrlSquareFrom(template, x, xMax, centerTile, radius, zoom) ==
    IF x > xMax THEN <<>>
    ELSE UrlColumnFrom(template, x, centerTile.y - radius, centerTile.y + radius, zoom)
         \o UrlSquareFrom(template, x + 1, xMax, centerTile, radius, zoom)

\* preloadTilesAroundCenter(centerLat, centerLon, zoom, radius,
\* tileUrlTemplate) up to its await of line 164, as the b-th call.
preloadTilesAroundCenter(st, area, template, b) ==
    IF template = NoTemplate
    THEN [st EXCEPT !.calls = Append(@, [Call("center", area, template)
                                            EXCEPT !.status = "rejected"])]
    ELSE LET tilesToPreload == UrlSquareFrom(template, area.center.x - area.radius,
                                             area.center.x + area.radius, area.center,
                                             area.radius, PreZoom)
             missing == SelectSeq(tilesToPreload, LAMBDA u : ~tcHas(st.cache, KeyOfUrl(u)))
             n       == Len(missing)
             limit   == st.maxConcurrentDownloads
             started == Min(limit, n)
             call    == [Call("center", area, template)
                            EXCEPT !.active = n,
                                   !.semLimit = limit,
                                   !.semCurrent = started,
                                   !.semQueue = SubSeq(missing, started + 1, n),
                                   !.status = IF n = 0 THEN "resolved" ELSE "running"]
         IN  [st EXCEPT !.calls = Append(@, call),
                        !.tasks = @ \cup {Task(b, "sem", "fetch", missing[i], st.controller) :
                                             i \in 1..started}]

\* The routes preloaded: the points the loops of lines 183-211 visit, each as
\* its centre tile and its radiusInTiles.  A route has a segment at least, so
\* two points at least.
Routes ==
    {<<[center |-> [x |-> 0, y |-> 0], radius |-> 0],
       [center |-> [x |-> 0, y |-> 0], radius |-> 0]>>,
     <<[center |-> [x |-> 0, y |-> 0], radius |-> 0],
       [center |-> [x |-> 1, y |-> 0], radius |-> 0]>>,
     <<[center |-> [x |-> 0, y |-> 0], radius |-> 1],
       [center |-> [x |-> 1, y |-> 1], radius |-> 1]>>}

\* Lines 180-211: the Set of the URLs of the tiles of the corridor.
RECURSIVE RouteTiles(_, _, _)
RouteTiles(route, template, tilesToPreload) ==
    IF route = <<>> THEN tilesToPreload
    ELSE LET p == Head(route)
         IN  RouteTiles(Tail(route), template,
                        AddAll(tilesToPreload,
                               UrlSquareFrom(template, p.center.x - p.radius,
                                             p.center.x + p.radius, p.center, p.radius,
                                             PreZoom)))

\* preloadTilesForRoute(coordinates, zoom, corridor, tileUrlTemplate) up to
\* its await of line 221, as the b-th call.
preloadTilesForRoute(st, route, template, b) ==
    IF template = NoTemplate
    THEN [st EXCEPT !.calls = Append(@, [Call("route", route, template)
                                            EXCEPT !.status = "rejected"])]
    ELSE LET tilesToPreload == RouteTiles(route, template, <<>>)
             missing == SelectSeq(tilesToPreload, LAMBDA u : ~tcHas(st.cache, KeyOfUrl(u)))
             call    == [Call("route", route, template)
                            EXCEPT !.active = Len(missing),
                                   !.status = IF missing = <<>> THEN "resolved" ELSE "running"]
         IN  [st EXCEPT !.calls = Append(@, call),
                        !.tasks = @ \cup {Task(b, "route", "fetch", u, st.controller) :
                                             u \in Range(missing)}]

----
\* The state machine of the preloader over a TileCache of 100 MB.

TpInit ==
    /\ now = 0
    /\ TcIdle
    /\ AcIdle
    /\ CtIdle
    /\ TpIdle
    /\ GetsIdle
    /\ PsIdle
    /\ TlIdle
    /\ WkIdle

PreloadTilesForRegion(area, options) ==
    /\ Len(calls) < MaxCalls
    /\ SetState(preloadTilesForRegion(State, area, options, Len(calls) + 1))
    /\ UNCHANGED notTp

PreloadTilesAroundCenter(area, template) ==
    /\ Len(calls) < MaxCalls
    /\ SetState(preloadTilesAroundCenter(State, area, template, Len(calls) + 1))
    /\ UNCHANGED notTp

PreloadTilesForRoute(route, template) ==
    /\ Len(calls) < MaxCalls
    /\ SetState(preloadTilesForRoute(State, route, template, Len(calls) + 1))
    /\ UNCHANGED notTp

CancelPreloading ==
    /\ SetState(cancelPreloading(State))
    /\ UNCHANGED notTp

\* The network answers a fetch whose signal is not aborted.
FetchAnswers(task, outcome) ==
    /\ task.pc = "fetch"
    /\ ~SignalAborted(State, task.signal)
    /\ SetState(Settles(State, task, outcome, now))
    /\ UNCHANGED notTp

\* A fetch whose signal is aborted rejects with an AbortError.
FetchAborts(task) ==
    /\ task.pc = "fetch"
    /\ SignalAborted(State, task.signal)
    /\ SetState(Settles(State, task, "abort", now))
    /\ UNCHANGED notTp

\* The timer of line 301 fires.
DelayElapsed(task) ==
    /\ task.pc = "delay"
    /\ SetState(AfterDelay([State EXCEPT !.tasks = @ \ {task}], task.call))
    /\ UNCHANGED notTp

RegionNext ==
    \/ \E area \in Areas, options \in RegionOptions : PreloadTilesForRegion(area, options)
    \/ CancelPreloading
    \/ \E task \in tasks, outcome \in {"ok", "fail"} : FetchAnswers(task, outcome)
    \/ \E task \in tasks : FetchAborts(task)
    \/ \E task \in tasks : DelayElapsed(task)

PreNext ==
    \/ RegionNext
    \/ \E area \in Areas, template \in Templates : PreloadTilesAroundCenter(area, template)
    \/ \E route \in Routes, template \in Templates : PreloadTilesForRoute(route, template)

SpecRegion == TpInit /\ [][RegionNext]_vars
SpecPre == TpInit /\ [][PreNext]_vars

\* Timers fire and an aborted fetch rejects; nothing makes the network answer
\* a fetch (line 315 passes fetch the signal and no timeout).
SpecRegionFair ==
    /\ SpecRegion
    /\ WF_vars(\E task \in tasks : DelayElapsed(task))
    /\ WF_vars(\E task \in tasks : FetchAborts(task))

\* The fetches in flight: awaited, their signal not aborted.
InFlight == {task \in tasks : task.pc = "fetch" /\ ~SignalAborted(State, task.signal)}

\* C5: at every moment the fetches in flight issued by the preloader are at
\* most maxConcurrentDownloads.
C5_InFlightWithinLimit ==
    Cardinality(InFlight) <= maxConcurrentDownloads

\* C6: no two fetches for the same tile are in flight together, whatever the
\* preload requests that cover the tile.
C6_OneFetchPerTile ==
    \A t1 \in InFlight, t2 \in InFlight : t1.url = t2.url => t1 = t2

\* The b-th call is a preloadTilesForRegion batch that cancelPreloading found
\* running; the promise of the b-th call has the given status.
CanceledBatch(b) ==
    IF b <= Len(calls) THEN calls[b].kind = "region" /\ calls[b].canceled ELSE FALSE
StatusIs(b, status) ==
    IF b <= Len(calls) THEN calls[b].status = status ELSE FALSE

\* C7: a preloadTilesForRegion batch that cancelPreloading found running
\* eventually resolves.
C7_CanceledBatchResolves ==
    \A b \in 1..MaxCalls : CanceledBatch(b) ~> StatusIs(b, "resolved")

\* C8: the errors of a batch that cancelPreloading found running count the
\* fetches of the batch that failed on their own and nothing else: no tile
\* dropped from the queue, no aborted fetch.
C8_ErrorsExcludeCanceledTiles ==
    \A b \in 1..Len(calls) :
        (calls[b].kind = "region" /\ calls[b].canceled) =>
            calls[b].errors = calls[b].failed

\* A canceled batch that has resolved, one of its fetches aborted and one of
\* its tiles dropped from the queue.
C8_Witness ==
    \E b \in 1..Len(calls) :
        /\ calls[b].kind = "region"
        /\ calls[b].canceled
        /\ calls[b].status = "resolved"
        /\ calls[b].aborted > 0
        /\ calls[b].loaded + calls[b].errors < calls[b].total

\* C9: once preloadTilesAroundCenter has resolved with none of its fetches
\* failed or aborted, has(x, y, z) is true of every in-range tile of its
\* square.
C9_CenterTilesCached ==
    \A b \in 1..Len(calls) :
        (/\ calls[b].kind = "center"
         /\ calls[b].status = "resolved"
         /\ calls[b].failed = 0
         /\ calls[b].aborted = 0) =>
            LET c == calls[b].area.center
                r == calls[b].area.radius
            IN  \A x \in (c.x - r)..(c.x + r), y \in (c.y - r)..(c.y + r) :
                    InGrid(x, y, PreZoom) =>
                        tcHas(cache, getTileKey(ToString(x), ToString(y), ToString(PreZoom)))

-----------------------------------------------------------------------------
(* TileCache.getStats, src/unnamed/part_006:271-288.                       *)

\* The number of get calls made.
MaxGets == 3

RECURSIVE SumAccessCount(_)
SumAccessCount(s) == IF s = <<>> THEN 0 ELSE Head(s).accessCount + SumAccessCount(Tail(s))

\* getStats(): currentSizeMB in hundredths of a MB (Math.round(x * 100) / 100)
\* and hitRate as the fraction num / den.
getStats(c, mb) ==
    LET totalRequests == SumAccessCount(c)
        totalHits     == SumAccessCount(c)
        bytesPerMB    == 1024 * 1024
    IN  [size |-> Len(c),
         currentSizeMB |-> (200 * SumSize(c) + bytesPerMB) \div (2 * bytesPerMB),
         maxSizeMB |-> mb,
         hitRate |-> IF totalRequests > 0
                     THEN [num |-> totalHits, den |-> totalRequests]
                     ELSE [num |-> 0, den |-> 1]]

\* get(x, y, z), and what its caller got: a payload or null.
CountedGet(tile) ==
    /\ gets.hits + gets.misses < MaxGets
    /\ cache' = tcGetCache(cache, KeyOf(tile), now)
    /\ lastOp' = [op |-> "get", key |-> KeyOf(tile),
                  result |-> tcGetResult(cache, KeyOf(tile)),
                  expired |-> Expired(cache, KeyOf(tile), now, maxAge), evicted |-> 0]
    /\ gets' = IF tcGetResult(cache, KeyOf(tile)) = Null
               THEN [gets EXCEPT !.misses = @ + 1]
               ELSE [gets EXCEPT !.hits = @ + 1]
    /\ UNCHANGED <<now, maxSizeMB, maxAge, acVars, ctVars, tpVars, psVars, tlVars, wkVars>>

StatsInit ==
    /\ now = 0
    /\ TcIdle
    /\ AcIdle
    /\ CtIdle
    /\ TpIdle
    /\ GetsIdle
    /\ PsIdle
    /\ TlIdle
    /\ WkIdle

StatsNext ==
    \/ Tick
    \/ \E tile \in Tiles : Set(tile, TileData)
    \/ \E tile \in Tiles : CountedGet(tile)
    \/ \E tile \in Tiles : Delete(tile)

SpecStats == StatsInit /\ [][StatsNext]_vars

\* C11: once a get has been made, the hitRate of getStats is the number of
\* gets that returned a payload over the number of gets made.
C11_HitRateIsHitsOverGets ==
    gets.hits + gets.misses > 0 =>
        LET hitRate == getStats(cache, maxSizeMB).hitRate
        IN  hitRate.num * (gets.hits + gets.misses) = gets.hits * hitRate.den

-----------------------------------------------------------------------------
(* Claims about the eviction of TileCache.cleanup, checked under SpecCache. *)

\* What a cleanup pass that took the cache from pre to post removed, pre
\* holding no expired entry and weighing more than the ceiling: the entries
\* removed come before the entries kept in the order of last access (in the
\* order of the Map when the last accesses are equal), the total was still
\* over 80% of the ceiling before the last removal, and it is at most 80% of
\* the ceiling when an entry is kept.
EvictedOldestFirstDownTo80(pre, post, maxSizeBytes) ==
    LET removed == {i \in 1..Len(pre) : ~tcHas(post, pre[i].key)}
        kept    == (1..Len(pre)) \ removed
        Before(i, j) == \/ pre[i].lastAccess < pre[j].lastAccess
                        \/ pre[i].lastAccess = pre[j].lastAccess /\ i < j
        last    == CHOOSE i \in removed : \A j \in removed \ {i} : Before(j, i)
    IN  /\ post = RemoveKeys(pre, {pre[i].key : i \in removed})
        /\ removed # {}
        /\ \A i \in removed, j \in kept : Before(i, j)
        /\ 10 * (SumSize(post) + pre[last].size) > 8 * maxSizeBytes
        /\ kept # {} => 10 * SumSize(post) <= 8 * maxSizeBytes

-----------------------------------------------------------------------------
(* Claims about the cleanup of useAdvancedTileCache, checked under SpecAdv. *)

\* C13: a cleanup pass that finds the cache over its entry or byte limit
\* after the expiry sweep removes at least one of the remaining entries.
\* Stated for the passes that start with the byte counter equal to the sum of
\* the sizes (exact), so that the limit is really exceeded.
C13_CleanupRemovesAtLeastOne ==
    (lastPass.ran /\ lastPass.over /\ lastPass.exact) => lastPass.removed >= 1

\* C14: delete(k) on a missing key leaves the cache as it is, and after any
\* delete(k) the key is gone and a second delete(k) changes nothing.
C14_DeleteIdempotent ==
    [][\A tile \in Tiles :
          Delete(tile) =>
              /\ ~tcHas(cache', KeyOf(tile))
              /\ tcDelete(cache', KeyOf(tile)) = cache'
              /\ ~tcHas(cache, KeyOf(tile)) => cache' = cache]_vars

\* A delete that found its key missing, in a cache that holds other tiles.
C14_Witness ==
    /\ lastOp.op = "delete"
    /\ lastOp.evicted = 0
    /\ cache # <<>>

\* C15: when setMaxSize(m) returns the sizes sum to at most m (MB), and when
\* setMaxAge(a) returns no entry older than a remains.
C15_SettersRunEviction ==
    [][/\ \A mb \in SizesMB :
             SetMaxSize(mb) => SumSize(cache') <= MaxSizeBytes(mb)
       /\ \A age \in Ages :
             SetMaxAge(age) => \A i \in 1..Len(cache') : ~(now - cache'[i].timestamp > age)]_vars

\* A setMaxAge that removed the entries older than the new age and kept one.
C15_Witness ==
    /\ lastOp.op = "setMaxAge"
    /\ lastOp.evicted > 0
    /\ cache # <<>>

-----------------------------------------------------------------------------
(* TileCache in persistent mode, src/unnamed/part_006: the constructor      *)
(* called in a React Native environment with persistent left at true.       *)

\* The store calls counted after a failed load.
MaxStoreCalls == 2

\* cleanup() in persistent mode.  AsyncStorage.removeItem(...) follows every
\* cache.delete (lines 86-88 and 107-109): with AsyncStorage undefined it
\* throws a TypeError at the first entry deleted and the pass ends there; else
\* it is issued for every key in removed, its rejection swallowed.
psCleanup(c, t, mb, age, isPersistent, storage) ==
    LET expiredAt == {i \in 1..Len(c) : t - c[i].timestamp > age}
        whole     == cleanup(c, t, mb, age)
    IN  IF isPersistent /\ storage = "undefined"
        THEN IF expiredAt # {}
             THEN [cache |-> RemoveKeys(c, {c[CHOOSE i \in expiredAt :
                                                 \A j \in expiredAt : i <= j].key}),
                   threw |-> TRUE, removed |-> {}]
             ELSE IF SumSize(c) > MaxSizeBytes(mb)
                  THEN [cache |-> RemoveKeys(c, {Head(SortByLastAccess(c)).key}),
                        threw |-> TRUE, removed |-> {}]
                  ELSE [cache |-> c, threw |-> FALSE, removed |-> {}]
        ELSE [cache |-> whole, threw |-> FALSE,
              removed |-> IF isPersistent
                          THEN {c[i].key : i \in 1..Len(c)}
                               \ {whole[i].key : i \in 1..Len(whole)}
                          ELSE {}]

\* The store after setItem of the records of puts and removeItem of the keys
\* of removes: a store that rejects its calls keeps what it has.
StoreAfter(st, storage, puts, removes) ==
    IF storage = "working"
    THEN RemoveKeys(IF puts = <<>> THEN st ELSE MapSet(st, puts[1]), removes)
    ELSE st

\* The count of store calls issued since the load failed, n more issued.
Counted(n) ==
    IF loadPc = "failed" THEN Min(MaxStoreCalls, callsAfterFailure + n) ELSE callsAfterFailure

\* set(tile, data): saveToStorage issues setItem when AsyncStorage is defined
\* (lines 165-176), then cleanup runs.
PsSet(tile, data) ==
    LET cachedTile == CachedTile(KeyOf(tile), UrlOf(tile), data, now)
        saved      == persistent /\ asyncStorage # "undefined"
        r          == psCleanup(MapSet(cache, cachedTile), now, maxSizeMB, maxAge,
                                persistent, asyncStorage)
    IN  /\ cache' = r.cache
        /\ opEnded' = IF r.threw THEN "threw" ELSE "returned"
        /\ store' = StoreAfter(store, asyncStorage,
                               IF saved THEN <<cachedTile>> ELSE <<>>, r.removed)
        /\ callsAfterFailure' = Counted((IF saved THEN 1 ELSE 0) + Cardinality(r.removed))
        /\ UNCHANGED <<now, maxSizeMB, maxAge, persistent, asyncStorage, loadPc, loadKeys,
                       notPs>>

\* delete(x, y, z): the removeItem of line 244 sits in a try.
PsDelete(tile) ==
    LET called == persistent /\ asyncStorage # "undefined"
    IN  /\ cache' = tcDelete(cache, KeyOf(tile))
        /\ opEnded' = "returned"
        /\ store' = StoreAfter(store, asyncStorage, <<>>,
                               IF called THEN {KeyOf(tile)} ELSE {})
        /\ callsAfterFailure' = Counted(IF called THEN 1 ELSE 0)
        /\ UNCHANGED <<now, maxSizeMB, maxAge, persistent, asyncStorage, loadPc, loadKeys,
                       notPs>>

\* clear(): getAllKeys and multiRemove sit in a try.
PsClear ==
    LET called == persistent /\ asyncStorage # "undefined"
    IN  /\ cache' = <<>>
        /\ opEnded' = "returned"
        /\ store' = IF called /\ asyncStorage = "working" THEN <<>> ELSE store
        /\ callsAfterFailure' = Counted(IF called THEN 1 ELSE 0)
        /\ UNCHANGED <<now, maxSizeMB, maxAge, persistent, asyncStorage, loadPc, loadKeys,
                       notPs>>

PsSetMaxSize(mb) ==
    LET r == psCleanup(cache, now, mb, maxAge, persistent, asyncStorage)
    IN  /\ maxSizeMB' = mb
        /\ cache' = r.cache
        /\ opEnded' = IF r.threw THEN "threw" ELSE "returned"
        /\ store' = StoreAfter(store, asyncStorage, <<>>, r.removed)
        /\ callsAfterFailure' = Counted(Cardinality(r.removed))
        /\ UNCHANGED <<now, maxAge, persistent, asyncStorage, loadPc, loadKeys, notPs>>

PsSetMaxAge(age) ==
    LET r == psCleanup(cache, now, maxSizeMB, age, persistent, asyncStorage)
    IN  /\ maxAge' = age
        /\ cache' = r.cache
        /\ opEnded' = IF r.threw THEN "threw" ELSE "returned"
        /\ store' = StoreAfter(store, asyncStorage, <<>>, r.removed)
        /\ callsAfterFailure' = Counted(Cardinality(r.removed))
        /\ UNCHANGED <<now, maxSizeMB, persistent, asyncStorage, loadPc, loadKeys, notPs>>

\* loadFromStorage, lines 132-135: getAllKeys answers, or rejects into the
\* catch of line 156.  The function returns normally either way, so the catch
\* of the constructor (lines 41-45) does not run and persistent stays as it is.
\* multiGet is issued in the same run; the store serves its calls in the order
\* issued, so multiGet reads the records as they are now, before the setItem
\* or removeItem of any later call.
LoadKeysAnswer ==
    /\ loadPc = "getAllKeys"
    /\ IF asyncStorage = "working"
       THEN /\ loadPc' = "multiGet"
            /\ loadKeys' = store
       ELSE /\ loadPc' = "failed"
            /\ loadKeys' = loadKeys
    /\ UNCHANGED <<now, tcVars, persistent, asyncStorage, store, opEnded, callsAfterFailure,
                   acVars, ctVars, tpVars, gets, tlVars, wkVars>>

\* The records of items go into the Map one after the other (line 145).
RECURSIVE LoadInto(_, _)
LoadInto(c, items) ==
    IF items = <<>> THEN c ELSE LoadInto(MapSet(c, Head(items)), Tail(items))

\* A stored record is the JSON text of a CachedTile, held as the tile itself,
\* or a value that is not: text JSON.parse rejects, or the empty string.
CorruptValues == {"corrupt", ""}
Corrupt(key, value) == [key |-> key, value |-> value]

\* if (value), line 138: the empty string is falsy.
HasValue(e) == ~("value" \in DOMAIN e /\ e.value = "")

\* JSON.parse(value) returns a CachedTile (line 140).
Parses(e) == ~("value" \in DOMAIN e)

\* The record goes into the Map (lines 144-145).
LoadsFresh(e, t, age) == HasValue(e) /\ Parses(e) /\ t - e.timestamp <= age

\* loadFromStorage, lines 137-155: multiGet answers; the records that parse
\* and are not expired go into the Map, removeItem is issued for the others
\* that have a value.
LoadItemsAnswer ==
    /\ loadPc = "multiGet"
    /\ LET items == loadKeys
           fresh == SelectSeq(items, LAMBDA e : LoadsFresh(e, now, maxAge))
           stale == {e.key : e \in {x \in Range(items) :
                                      HasValue(x) /\ ~LoadsFresh(x, now, maxAge)}}
       IN  /\ cache' = LoadInto(cache, fresh)
           /\ store' = StoreAfter(store, asyncStorage, <<>>, stale)
    /\ loadPc' = "loaded"
    /\ UNCHANGED <<now, maxSizeMB, maxAge, lastOp, persistent, asyncStorage, loadKeys,
                   opEnded, callsAfterFailure, acVars, ctVars, tpVars, gets, tlVars, wkVars>>

\* new TileCache(1, 1) in a React Native environment: persistent is true,
\* and loadFromStorage has run up to its first await, or into its catch when
\* AsyncStorage is undefined (lines 128-130).
StoreInit ==
    /\ now = 0
    /\ cache = <<>>
    /\ maxSizeMB = 1
    /\ maxAge = 1
    /\ lastOp = NoOp
    /\ persistent = TRUE
    /\ asyncStorage \in {"undefined", "working", "rejecting"}
    /\ store \in IF asyncStorage = "working"
                 THEN {<<>>, <<CachedTile(<<"2", "0", "0">>,
                                          <<"tile-", "2", "-", "0", "-", "0">>, TileData, 0)>>}
                 ELSE {<<>>}
    /\ loadPc = IF asyncStorage = "undefined" THEN "failed" ELSE "getAllKeys"
    /\ loadKeys = <<>>
    /\ opEnded = "none"
    /\ callsAfterFailure = 0
    /\ AcIdle
    /\ CtIdle
    /\ TpIdle
    /\ GetsIdle
    /\ TlIdle
    /\ WkIdle

StoreNext ==
    \/ Tick
    \/ \E tile \in Tiles : PsSet(tile, TileData)
    \/ \E tile \in Tiles : PsDelete(tile)
    \/ PsClear
    \/ \E mb \in SizesMB : PsSetMaxSize(mb)
    \/ \E age \in Ages : PsSetMaxAge(age)
    \/ LoadKeysAnswer
    \/ LoadItemsAnswer

SpecStore == StoreInit /\ [][StoreNext]_vars

\* C16: whatever the store does, set, delete, clear, setMaxSize and setMaxAge
\* neither throw nor reject.
C16_StoreFailureNeverThrows ==
    opEnded # "threw"

\* C17: once the initial load has failed, persistent is false and no call is
\* issued to the store.
C17_FailedLoadDisablesPersistence ==
    loadPc = "failed" => (~persistent /\ callsAfterFailure = 0)

-----------------------------------------------------------------------------
(* The initial load of a persistent TileCache against what an earlier run   *)
(* left in the store, with set calls made while the load is in flight.      *)

\* What set stores while the load runs, unlike the payload of the records.
NewData == Payload(900000)

TileAt(i) == [x |-> i, y |-> 0, z |-> Zoom]
StoredTile(i) == CachedTile(KeyOf(TileAt(i)), UrlOf(TileAt(i)), TileData, 0)

\* The stores found: empty, one tile, two tiles (800000 characters, under
\* the ceiling of 1 MB), and a tile after a record that is not the JSON of a
\* tile.
LoadStores ==
    {<<>>, <<StoredTile(0)>>, <<StoredTile(0), StoredTile(1)>>}
    \cup {<<Corrupt(KeyOf(TileAt(1)), value), StoredTile(0)>> : value \in CorruptValues}

\* new TileCache(1, 1) with a working AsyncStorage, loadFromStorage awaiting
\* getAllKeys.
LoadInit ==
    /\ now = 0
    /\ cache = <<>>
    /\ maxSizeMB = 1
    /\ maxAge = 1
    /\ lastOp = NoOp
    /\ persistent = TRUE
    /\ asyncStorage = "working"
    /\ store \in LoadStores
    /\ loadPc = "getAllKeys"
    /\ loadKeys = <<>>
    /\ opEnded = "none"
    /\ callsAfterFailure = 0
    /\ AcIdle
    /\ CtIdle
    /\ TpIdle
    /\ GetsIdle
    /\ TlIdle
    /\ WkIdle

LoadNext ==
    \/ Tick
    \/ \E tile \in Tiles : PsSet(tile, NewData)
    \/ LoadKeysAnswer
    \/ LoadItemsAnswer

SpecLoad == LoadInit /\ [][LoadNext]_vars

\* C33: when the load completes, every record read that was older than
\* maxAge or is not the JSON of a tile has not been put into the Map by the
\* load and is gone from the store, and every other record read is in the Map.
C33_LoadDropsExpiredAndCorrupt ==
    [][LoadItemsAnswer =>
          \A i \in 1..Len(loadKeys) :
              LET e == loadKeys[i]
                  bad == IF Parses(e) THEN now - e.timestamp > maxAge ELSE TRUE
              IN  IF bad
                  THEN /\ \A j \in 1..Len(cache') :
                             cache'[j] = e => \E k \in 1..Len(cache) : cache[k] = e
                       /\ ~tcHas(store', e.key)
                  ELSE \E j \in 1..Len(cache') : cache'[j] = e]_vars

\* C38: an entry set while the load is in flight is not replaced by the
\* record the store held for its key: when the load completes, get still
\* returns the payload of every entry that was in the Map.
C38_LoadKeepsNewerEntries ==
    [][LoadItemsAnswer =>
          \A i \in 1..Len(cache) :
              tcGetResult(cache', cache[i].key) = cache[i].data]_vars

\* C39: when the load completes, the entries in the Map, loaded or set
\* meanwhile, weigh no more than the ceiling.
C39_LoadKeepsCeiling ==
    [][LoadItemsAnswer => SumSize(cache') <= MaxSizeBytes(maxSizeMB)]_vars

-----------------------------------------------------------------------------
(* Claims on superseded batches, failed fetches and invalid input.          *)

\* C18: once a new call of preloadTilesForRegion has started, no worker of the
\* batch before it starts another fetch.  The b-th call creates the b-th
\* controller and a fetch carries the signal of the controller current when
\* it starts, so a fetch of batch b with a later signal was started after a
\* later call.
C18_SupersededBatchStartsNoFetch ==
    \A task \in tasks :
        (task.kind = "worker" /\ task.pc = "fetch") => ~(task.signal > task.call)

\* C19: a call of preloadTilesForRegion, preloadTilesAroundCenter or
\* preloadTilesForRoute one of whose fetches failed (transport error or
\* non-2xx response) does not reject.
C19_FailedFetchNeverRejects ==
    \A b \in 1..Len(calls) : calls[b].failed > 0 => calls[b].status # "rejected"

\* Invalid input: a negative radius, and a coordinate list that is empty, of
\* which the loop of line 183 visits no point.
InvalidAreas ==
    {[center |-> [x |-> 0, y |-> 0], radius |-> -1],
     [center |-> [x |-> 1, y |-> 1], radius |-> -2]}
EmptyRoute == <<>>

InvalidInput(call) ==
    IF call.kind = "route" THEN Len(call.area) = 0 ELSE call.area.radius < 0

\* The preloader called with invalid input among its region calls.
InvalidNext ==
    \/ RegionNext
    \/ \E area \in InvalidAreas, options \in RegionOptions : PreloadTilesForRegion(area, options)
    \/ \E area \in InvalidAreas : PreloadTilesAroundCenter(area, KeyTemplate)
    \/ PreloadTilesForRoute(EmptyRoute, KeyTemplate)

SpecInvalid == TpInit /\ [][InvalidNext]_vars

\* C20: a preload called with an empty coordinate list or with a negative
\* radius ends in an error at that call.
C20_InvalidInputFailsFast ==
    \A b \in 1..Len(calls) : InvalidInput(calls[b]) => calls[b].status = "rejected"

-----------------------------------------------------------------------------
(* Claims on cancellation, failed fetches and the semaphore.                *)

\* C21: in every state, a fresh preloader included, cancelPreloading() leaves
\* isCurrentlyPreloading() false and getQueueSize() 0, and a second call
\* leaves the state as the first call left it.
C21_CancelIdempotent ==
    LET once  == cancelPreloading(State)
        twice == cancelPreloading(once)
    IN  /\ ~once.isPreloading
        /\ Len(once.downloadQueue) = 0
        /\ twice = once

\* cancelPreloading() has run on a batch of more tiles than workers, a fetch
\* still awaited.
C21_Witness ==
    /\ controllerAborted
    /\ ~isPreloading
    /\ tasks # {}
    /\ \E b \in 1..Len(calls) :
           calls[b].canceled /\ calls[b].status = "running" /\ calls[b].total > calls[b].active

-----------------------------------------------------------------------------
(* The global TileCache of TileLayer, src/src/components/TileLayer.tsx      *)
(* lines 183-238: one instance for the module, kept from mount to mount.    *)

TlMaxSize == 200
TlMaxAge == 10 * 60 * 1000

\* The entry set(key, data) stores; data is the payload passed for the key.
TlEntry(key, t) ==
    [key |-> key, data |-> key, timestamp |-> t, accessCount |-> 1, inserted |-> t]

\* The score of lines 226-227.
TlScore(e, t) == e.accessCount * (t - e.timestamp)

\* entries.sort of lines 225-229, ascending by score and stable: the entries
\* of the lowest score in their Map order, then those of the next score.
RECURSIVE TlSortByScore(_, _, _)
TlSortByScore(c, t, scores) ==
    IF scores = {} THEN <<>>
    ELSE LET v == CHOOSE x \in scores : \A y \in scores : x <= y
         IN  SelectSeq(c, LAMBDA e : TlScore(e, t) = v)
             \o TlSortByScore(c, t, scores \ {v})

\* cleanup(), lines 222-234: the first third of the sorted entries deleted.
tlCleanup(c, t) ==
    LET entries  == TlSortByScore(c, t, {TlScore(e, t) : e \in Range(c)})
        toDelete == {entries[i].key : i \in 1..(Len(entries) \div 3)}
    IN  RemoveKeys(c, toDelete)

\* set(key, data) with the test of line 190 as size > maxSize.
tlSet_CleanupWhenOver(c, key, t) ==
    MapSet(IF Len(c) > TlMaxSize THEN tlCleanup(c, t) ELSE c, TlEntry(key, t))

\* set(key, data), lines 188-199.
tlSet(c, key, t) ==
    MapSet(IF Len(c) >= TlMaxSize THEN tlCleanup(c, t) ELSE c, TlEntry(key, t))

\* get(key), lines 201-216: the cache after the call, what it returns, and the
\* time since set stored the entry returned.
tlGet(c, key, t) ==
    LET i == IndexOfKey(c, key)
    IN  IF i = 0 THEN [cache |-> c, hit |-> FALSE, age |-> 0]
        ELSE IF t - c[i].timestamp > TlMaxAge
             THEN [cache |-> RemoveKeys(c, {key}), hit |-> FALSE, age |-> 0]
             ELSE [cache |-> [c EXCEPT ![i].accessCount = @ + 1, ![i].timestamp = t],
                   hit |-> TRUE, age |-> t - c[i].inserted]

\* The keys set and the key read, and the caches a mount finds: none stored
\* yet, or the first n keys stored by an earlier mount with room for one more.
TlKeys == {1, TlMaxSize, TlMaxSize + 1}
TlReadKeys == {1}
TlFills == {0, TlMaxSize - 1}
TlFilled(n) == [k \in 1..n |-> TlEntry(k, 0)]

notTl == <<tcVars, acVars, ctVars, tpVars, psVars, wkVars>>

TlInit ==
    /\ now = 0
    /\ TcIdle
    /\ AcIdle
    /\ CtIdle
    /\ TpIdle
    /\ GetsIdle
    /\ PsIdle
    /\ WkIdle
    /\ tlCache \in {TlFilled(n) : n \in TlFills}
    /\ tlOp = NoTlOp

TlSet(key) ==
    /\ tlCache' = tlSet(tlCache, key, now)
    /\ tlOp' = [op |-> "set", key |-> key, cleaned |-> Len(tlCache) >= TlMaxSize,
                hit |-> FALSE, age |-> 0]
    /\ UNCHANGED <<now, gets, notTl>>

TlGet(key) ==
    /\ gets.hits + gets.misses < MaxGets
    /\ LET r == tlGet(tlCache, key, now)
       IN  /\ tlCache' = r.cache
           /\ tlOp' = [op |-> "get", key |-> key, cleaned |-> FALSE,
                       hit |-> r.hit, age |-> r.age]
           /\ gets' = IF r.hit THEN [gets EXCEPT !.hits = @ + 1]
                      ELSE [gets EXCEPT !.misses = @ + 1]
    /\ UNCHANGED <<now, notTl>>

\* Date.now() moves on by the length of maxAge.
TlTick ==
    /\ now < MaxTime * TlMaxAge
    /\ now' = now + TlMaxAge
    /\ UNCHANGED <<tlVars, gets, notTl>>

TlNext ==
    \/ \E key \in TlKeys : TlSet(key)
    \/ \E key \in TlReadKeys : TlGet(key)
    \/ TlTick

SpecLayer == TlInit /\ [][TlNext]_vars

\* C22: the global TileCache of TileLayer never holds more than maxSize (200)
\* entries.
C22_AtMostMaxSizeTiles ==
    Len(tlCache) <= TlMaxSize

\* A set has found the cache full and has run cleanup.
C22_Witness ==
    tlOp.op = "set" /\ tlOp.cleaned /\ Len(tlCache) = TlMaxSize - TlMaxSize \div 3 + 1

\* C29: expiry is measured from the insertion of an entry: a get never
\* returns the payload of an entry stored more than maxAge earlier, however
\* often the entry was read in between.
C29_NoReadPastMaxAge ==
    (tlOp.op = "get" /\ tlOp.hit) => tlOp.age <= TlMaxAge

\* C40: a cleanup of the global TileCache never deletes an entry while it
\* keeps another entry of the same accessCount whose timestamp (the time of
\* its last access) is older.
C40_CleanupKeepsRecentlyUsed ==
    [][\A key \in TlKeys :
          (TlSet(key) /\ Len(tlCache) >= TlMaxSize) =>
              \A i \in 1..Len(tlCache) :
                  IndexOfKey(tlCache', tlCache[i].key) = 0 =>
                      \A j \in 1..Len(tlCache) :
                          (/\ tlCache[j].key # key
                           /\ IndexOfKey(tlCache', tlCache[j].key) # 0
                           /\ tlCache[j].accessCount = tlCache[i].accessCount)
                              => tlCache[j].timestamp >= tlCache[i].timestamp]_vars

\* C23: a fetch of a preloadTilesAroundCenter or preloadTilesForRoute call
\* during which cancelPreloading() has not run is not aborted.
C23_LaterCallNotAborted ==
    \A task \in tasks :
        (task.kind # "worker" /\ task.pc = "fetch" /\ ~calls[task.call].canceled)
            => ~SignalAborted(State, task.signal)

\* C24: a batch of preloadTilesForRegion that was not canceled ends with
\* every one of its tiles loaded or counted as an error, whatever fetches
\* failed.
C24_EveryTileLoadedOrCounted ==
    \A b \in 1..Len(calls) :
        (calls[b].kind = "region" /\ calls[b].status = "resolved" /\ ~calls[b].canceled)
            => calls[b].loaded + calls[b].errors = calls[b].total

\* C25: every fetch ends within its timeout, so every batch of
\* preloadTilesForRegion settles in the end, even when the network leaves a
\* fetch unanswered and nobody calls cancelPreloading().
C25_EveryBatchSettles ==
    \A b \in 1..MaxCalls :
        StatusIs(b, "running") ~> (StatusIs(b, "resolved") \/ StatusIs(b, "rejected"))

-----------------------------------------------------------------------------
(* createSemaphore(maxConcurrentDownloads), part_008 lines 361-386, as      *)
(* preloadTilesAroundCenter uses it: one acquire per missing tile, in the   *)
(* order of tilesToPreload, the permit released when the fetch has ended.   *)

\* The limits a preloadTilesForRegion call leaves in maxConcurrentDownloads
\* (line 60), the call itself finding no tile to download, and the square of
\* four tiles preloaded under them, one call after the other.
SemOptions == {[delay |-> {}, maxConcurrent |-> {n}] : n \in {0, 1, 2}}
SemAreas == {[center |-> [x |-> 0, y |-> 0], radius |-> 1]}

SemNext ==
    \/ \E area \in InvalidAreas, options \in SemOptions :
           tasks = {} /\ PreloadTilesForRegion(area, options)
    \/ \E area \in SemAreas : tasks = {} /\ PreloadTilesAroundCenter(area, KeyTemplate)
    \/ \E task \in tasks, outcome \in {"ok", "fail"} : FetchAnswers(task, outcome)

SpecSem == TpInit /\ [][SemNext]_vars

\* Every holder of a permit calls its release: no fetch is awaited for ever.
\* Both answers of a fetch are enabled in the same states (the fetch awaited,
\* its signal not aborted), so weak fairness of one of them rules out the runs
\* that leave a fetch unanswered and no other: a run whose fetches all answer
\* ok ends with no fetch awaited.
SpecSemFair ==
    /\ SpecSem
    /\ WF_vars(\E task \in tasks : FetchAnswers(task, "fail"))

\* The acquirers of the semaphore of call b that hold a permit.
Holders(b) == {task \in tasks : task.call = b /\ task.kind = "sem"}

\* Of the semaphores of limit at least least: at most limit acquirers hold a
\* permit; a step that changes the queue of waiters grants the first of them;
\* no acquirer waits.  The calls are finitely many, so every waiter is granted
\* in the end exactly when from some moment on none waits.
Bounded(least) ==
    \A b \in 1..Len(calls) :
        calls[b].semLimit >= least => Cardinality(Holders(b)) <= calls[b].semLimit
FirstComeFirst(least) ==
    \A b \in 1..Len(calls) :
        (calls[b].semLimit >= least /\ calls'[b].semQueue # calls[b].semQueue) =>
            /\ calls'[b].semQueue = Tail(calls[b].semQueue)
            /\ Holders(b)' \ Holders(b) =
                   {Task(b, "sem", "fetch", Head(calls[b].semQueue), controller)}
NoneWaits(least) ==
    \A b \in 1..Len(calls) : calls[b].semLimit >= least => calls[b].semQueue = <<>>

\* C26, for n >= 1: at most n acquirers of createSemaphore(n) hold a permit,
\* waiters are granted in the order of their acquire calls, and every waiter
\* is granted in the end when every holder releases.
C26_SemaphoreBoundedFifoLive ==
    /\ []Bounded(1)
    /\ [][FirstComeFirst(1)]_vars
    /\ <>[]NoneWaits(1)

\* Under a limit of 1 the first holder has released and the first of three
\* waiters holds the permit.
C26_Witness ==
    \E b \in 1..Len(calls) :
        /\ calls[b].kind = "center"
        /\ calls[b].semLimit = 1
        /\ Len(calls[b].semQueue) = 2
        /\ Cardinality(Holders(b)) = 1

\* C26 as stated, for every n: the same of createSemaphore(0).
C26_SemaphoreAnyLimit ==
    /\ []Bounded(0)
    /\ [][FirstComeFirst(0)]_vars
    /\ <>[]NoneWaits(0)

\* C31: whenever cleanup computes scores (the cache is over a limit after the
\* expiry sweep and the sort has entries to compare), the elapsed time each
\* score divides by is positive.
C31_ScoreElapsedPositive ==
    [][AcCleanup =>
          LET alive == SelectSeq(acCache, LAMBDA e : ~(now - e.timestamp > acConfig.maxAge))
              expired == SelectSeq(acCache, LAMBDA e : now - e.timestamp > acConfig.maxAge)
              over  == \/ Len(alive) > acConfig.maxEntries
                       \/ cacheSize - SumSize(expired) > acConfig.maxSize * 1024 * 1024
          IN  (over /\ Len(alive) >= 2) =>
                  \A i \in 1..Len(alive) : ScoreElapsed(alive[i], now) > 0]_vars

\* C30: when a cacheTile call returns the cache holds at most maxEntries
\* entries and the tracked size is at most maxSize (MB).
C30_CacheTileKeepsLimits ==
    [][\A a \in activeRequests, data \in AcPayloads :
          DownloadOk(a, data) =>
              /\ Len(acCache') <= acConfig.maxEntries
              /\ cacheSize' <= acConfig.maxSize * 1024 * 1024]_vars

-----------------------------------------------------------------------------
(* Duplicate downloadTile calls of useAdvancedTileCache.                    *)

\* downloadTile calls one after the other as the rendering layer issues them,
\* their fetches answering either way, and the waiting calls polling.
DedupNext ==
    \/ \E url \in Urls, priority \in Priorities : DownloadStart(url, priority)
    \/ \E a \in activeRequests, data \in AcPayloads : DownloadOk(a, data)
    \/ \E a \in activeRequests : DownloadFail(a)
    \/ \E url \in pollers : PollCache(url)

SpecDedup == AcInit /\ [][DedupNext]_vars

\* Every fetch ends (its 10 s timer aborts it at the latest, which is
\* DownloadFail), and the 50 ms timer of a waiting call fires.
SpecDedupFair ==
    /\ SpecDedup
    /\ WF_vars(\E a \in activeRequests : DownloadFail(a))
    /\ WF_vars(\E url \in pollers : PollCache(url))

\* C27: a downloadTile call for a url that is already being fetched starts no
\* second fetch, and it resolves: every url some call waits for is
\* eventually waited for by none.
C27_WaitingCallResolves ==
    /\ [](\A a, b \in activeRequests : a.url = b.url => a = b)
    /\ \A url \in Urls : (url \in pollers) ~> (url \notin pollers)

-----------------------------------------------------------------------------
(* The download worker of useAdvancedTileCache, src/unnamed/part_003        *)
(* lines 201-260: loadTile and preloadTiles queue requests, process() takes *)
(* them one at a time and awaits downloadTile for each.                     *)

MaxConcurrentRequests == 6

\* The requests queued at one time.
MaxQueue == 2

\* requestQueue.current.sort((a, b) => b.priority - a.priority): a stable
\* sort, highest priority first.
RECURSIVE InsertByPriority(_, _)
InsertByPriority(r, s) ==
    IF s = <<>> THEN <<r>>
    ELSE IF Head(s).priority >= r.priority
         THEN <<Head(s)>> \o InsertByPriority(r, Tail(s))
         ELSE <<r>> \o s

RECURSIVE SortByPriority(_)
SortByPriority(q) ==
    IF q = <<>> THEN <<>>
    ELSE InsertByPriority(q[Len(q)], SortByPriority(SubSeq(q, 1, Len(q) - 1)))

\* The take of lines 210-212 without the sort.
workerTake_QueueOrder(queue) ==
    [request |-> Head(queue), queue |-> Tail(queue)]

\* Lines 210-212: sort, then shift.
workerTake(queue) ==
    LET sorted == SortByPriority(queue)
    IN  [request |-> Head(sorted), queue |-> Tail(sorted)]

\* The hook's refs as one record.
Hook == [cache |-> acCache, size |-> cacheSize, active |-> activeRequests,
         queue |-> requestQueue, worker |-> worker]

\* The while loop of process() from its test to the await of downloadTile
\* (lines 208-217) or to the end of process() (lines 223-228).  downloadTile
\* runs up to its own await: it returns the cached payload, polls for a url
\* being fetched, or starts the fetch.
workerLoop(st, t, cfg) ==
    IF Len(st.queue) > 0 /\ Cardinality(st.active) < MaxConcurrentRequests
    THEN LET take == workerTake(st.queue)
             r    == acGetTile(st.cache, st.size, take.request.url, t, cfg)
             busy == \E a \in st.active : a.url = take.request.url
         IN  [cache  |-> r.cache,
              size   |-> r.size,
              active |-> IF r.result # Null \/ busy THEN st.active
                         ELSE st.active \cup {take.request},
              queue  |-> take.queue,
              worker |-> [isRunning |-> TRUE,
                          pc |-> IF r.result # Null THEN "cached"
                                 ELSE IF busy THEN "polling" ELSE "fetching",
                          request |-> take.request,
                          timer |-> st.worker.timer,
                          took |-> [request |-> take.request, queued |-> st.queue]]]
    ELSE [st EXCEPT !.worker = [@ EXCEPT !.isRunning = FALSE, !.pc = "idle",
                                         !.request = NoRequest,
                                         !.timer = @ \/ Len(st.queue) > 0]]

\* process(), lines 205-207.
process(st, t, cfg) ==
    IF st.worker.isRunning THEN st ELSE workerLoop(st, t, cfg)

\* The forEach of preloadTiles, lines 238-246.
RECURSIVE preloadPush(_, _, _, _, _)
preloadPush(st, urls, priority, t, cfg) ==
    IF urls = <<>> THEN st
    ELSE LET url  == Head(urls)
             r    == acGetTile(st.cache, st.size, url, t, cfg)
             push == r.result = Null /\ ~(\E a \in st.active : a.url = url)
         IN  preloadPush([st EXCEPT !.cache = r.cache, !.size = r.size,
                                    !.queue = IF push
                                              THEN Append(@, [url |-> url, priority |-> priority])
                                              ELSE @],
                         Tail(urls), priority, t, cfg)

notWk == <<tcVars, ctVars, tpVars, gets, psVars, tlVars, acConfig, lastPass, pollers>>

HookBecomes(st) ==
    /\ acCache' = st.cache
    /\ cacheSize' = st.size
    /\ activeRequests' = st.active
    /\ requestQueue' = st.queue
    /\ worker' = st.worker
    /\ UNCHANGED <<now, notWk>>

\* loadTile(url, priority), lines 255-273.
LoadTile(url, priority) ==
    /\ Len(requestQueue) < MaxQueue
    /\ \A i \in 1..Len(acCache) : acCache[i].accessCount < MaxAccess
    /\ LET r == acGetTile(acCache, cacheSize, url, now, acConfig)
           st == [Hook EXCEPT !.cache = r.cache, !.size = r.size]
       IN  IF r.result # Null
           THEN HookBecomes(st)
           ELSE HookBecomes(process([st EXCEPT !.queue = Append(@, [url |-> url,
                                                                   priority |-> priority])],
                                    now, acConfig))

\* preloadTiles(urls, priority), lines 236-252.
PreloadTiles(urls, priority) ==
    /\ Len(requestQueue) + Len(urls) <= MaxQueue
    /\ \A i \in 1..Len(acCache) : acCache[i].accessCount < MaxAccess
    /\ LET st == preloadPush(Hook, urls, priority, now, acConfig)
       IN  IF Len(st.queue) > 0
           THEN HookBecomes(process(st, now, acConfig))
           ELSE HookBecomes(st)

\* The fetch of the request the worker awaits answers with a payload:
\* cacheTile and the finally block of downloadTile, the callback, and the
\* loop again.
WorkerFetchOk(data) ==
    /\ worker.pc = "fetching"
    /\ LET r == acCacheTile(acCache, cacheSize, worker.request.url, data,
                            worker.request.priority, now, acConfig)
       IN  HookBecomes(workerLoop([Hook EXCEPT !.cache = r.cache, !.size = r.size,
                                               !.active = @ \ {worker.request}],
                                  now, acConfig))

\* The fetch fails or times out: downloadTile returns null, the callback gets
\* null, and the loop goes on.
WorkerFetchFail ==
    /\ worker.pc = "fetching"
    /\ HookBecomes(workerLoop([Hook EXCEPT !.active = @ \ {worker.request}], now, acConfig))

\* downloadTile had the tile cached: the await resumes the loop.
WorkerCached ==
    /\ worker.pc = "cached"
    /\ HookBecomes(workerLoop(Hook, now, acConfig))

PreloadLists == {<<url>> : url \in Urls} \cup {<<u1, u2>> : u1 \in Urls, u2 \in Urls}

\* The hook mounted with its default config, nothing cached or queued.
WkInit ==
    /\ now = 0
    /\ TcIdle
    /\ AcIdle
    /\ CtIdle
    /\ TpIdle
    /\ GetsIdle
    /\ PsIdle
    /\ TlIdle
    /\ WkIdle

WkNext ==
    \/ \E url \in Urls, priority \in Priorities : LoadTile(url, priority)
    \/ \E urls \in PreloadLists, priority \in Priorities : PreloadTiles(urls, priority)
    \/ \E data \in AcPayloads : WorkerFetchOk(data)
    \/ WorkerFetchFail
    \/ WorkerCached

SpecWorker == WkInit /\ [][WkNext]_vars

\* C32: each time the worker takes a request from the queue, the request
\* taken has the highest priority of all the requests queued at that moment.
C32_TakesHighestPriority ==
    \A i \in 1..Len(worker.took.queued) :
        worker.took.queued[i].priority <= worker.took.request.priority

\* The worker took the second of two queued requests, the first having the
\* lower priority.
C32_Witness ==
    /\ Len(worker.took.queued) = 2
    /\ worker.took.queued[1].priority < worker.took.queued[2].priority
    /\ worker.took.request = worker.took.queued[2]

-----------------------------------------------------------------------------
(* Failed fetches of the preloader and of the hook.                         *)

\* The preloader and the hook share no state: a run exercises the batches of
\* preloadTilesForRegion on an unused hook, or downloadTile before any batch.
RetryNext ==
    \/ /\ acCache = <<>> /\ activeRequests = {} /\ pollers = {}
       /\ RegionNext
    \/ /\ calls = <<>>
       /\ DedupNext

SpecRetry == TpInit /\ [][RetryNext]_vars

-----------------------------------------------------------------------------
(* Claims on overlapping batches of preloadTilesForRegion and what their    *)
(* progress summaries count.                                                *)

\* C35: when the promise of a canceled batch a of preloadTilesForRegion
\* resolves while a later batch b is running and not canceled, the step leaves
\* the later batch alone: isPreloading stays as it was, every fetch of b that
\* was in the in-flight set stays in it, and every queued tile that nobody is
\* downloading stays in the queue.
C35_SupersededCompletionKeepsNewerBatch ==
    [][\A a \in 1..Len(calls) : \A b \in (a + 1)..Len(calls) :
          (/\ Len(calls') = Len(calls)
           /\ calls[a].kind = "region" /\ calls[a].canceled
           /\ calls[a].status = "running" /\ calls'[a].status = "resolved"
           /\ calls[b].kind = "region" /\ ~calls[b].canceled
           /\ calls[b].status = "running" /\ calls'[b].status = "running")
              => /\ isPreloading' = isPreloading
                 /\ \A task \in tasks \cap tasks' :
                        (task.pc = "fetch" /\ task.signal = b
                            /\ task.url \in currentDownloads)
                                => task.url \in currentDownloads'
                 /\ \A url \in Range(downloadQueue) \ currentDownloads :
                        url \in Range(downloadQueue')]_vars

\* C36: the progress summary of every batch of preloadTilesForRegion has
\* loaded + errors <= total at all times, and loaded + errors = total once the
\* batch has resolved without having been canceled, other calls overlapping
\* or not.
C36_ProgressAddsUpToTotal ==
    \A b \in 1..Len(calls) :
        calls[b].kind = "region" =>
            /\ calls[b].loaded + calls[b].errors <= calls[b].total
            /\ (calls[b].status = "resolved" /\ ~calls[b].canceled)
                   => calls[b].loaded + calls[b].errors = calls[b].total

\* C37: the loaded counter of a batch of preloadTilesForRegion never exceeds
\* the number of fetches of the batch that answered and were written to the
\* cache: an aborted fetch is not counted as loaded.
C37_LoadedCountsStoredTiles ==
    \A b \in 1..Len(calls) :
        calls[b].kind = "region" => calls[b].loaded <= calls[b].stored

====
